---------------------------- MODULE Spec2Model ----------------------------
(***************************************************************************)
(* A model of the patata CHIP-8 interpreter (src/src/chip8.rs and the      *)
(* subsystems it owns).  The interpreter is a record `c` holding the       *)
(* fields of struct Chip8; every opcode handler is an operator from such a *)
(* record to the record it leaves behind.  A handler that panics returns   *)
(* the record as it stands at the panic (the writes made so far included)  *)
(* with the field `panic` set.                                             *)
(***************************************************************************)
EXTENDS Integers, Sequences, FiniteSets, TLC

VARIABLES
    registers,        \* Chip8.registers      : [u8; 16]
    memory,           \* Chip8.memory         : [u8; 4096]
    index,            \* Chip8.index          : IndexRegister.inner (u16)
    program_counter,  \* Chip8.program_counter: u16
    stack,            \* Chip8.stack          : [u16; 16]
    stack_pointer,    \* Chip8.stack_pointer  : u8
    delay_timer,      \* Chip8.delay_timer    : Timer.count (u8)
    sound_timer,      \* Chip8.sound_timer    : Timer.count (u8)
    keys,             \* Chip8.keypad         : Keypad.keys (u16 bit mask)
    buffer,           \* Chip8.display        : Video.buffer [u8; 64*32]
    overflow_checks,  \* build profile: are integer overflow checks compiled in
    phase,            \* position of the driver: constructed, running, panicked, exited
    prev,             \* history: the interpreter as it was before the last operation
    last_op,          \* history: the last operation and its inputs
    draw_log,         \* history: the direct Video::draw calls made so far
    call_log          \* history: the direct handler calls made so far

vars == <<registers, memory, index, program_counter, stack, stack_pointer,
          delay_timer, sound_timer, keys, buffer, overflow_checks, phase,
          prev, last_op, draw_log, call_log>>

---------------------------------------------------------------------------
(* Program constants *)

MEMORY_SIZE_BYTES == 4096

PROG_CTR_START_ADDR == 512

MAX_ROM_SIZE_BYTES == MEMORY_SIZE_BYTES - 512

FONTSET_START_ADDR == 80

WIDTH_PIXELS == 64

HEIGHT_PIXELS == 32

NUM_KEYS == 16

U12_MAX == 4095

\* The glyph table of crate::fonts (16 glyphs of 5 bytes, digits 0..F).
FONT_SET ==
    << 240, 144, 144, 144, 240,    32,  96,  32,  32, 112,
       240,  16, 240, 128, 240,   240,  16, 240,  16, 240,
       144, 144, 240,  16,  16,   240, 128, 240,  16, 240,
       240, 128, 240, 144, 240,   240,  16,  32,  64,  64,
       240, 144, 240, 144, 240,   240, 144, 240,  16, 240,
       240, 144, 240, 144, 144,   224, 144, 224, 144, 224,
       240, 128, 128, 128, 240,   224, 144, 144, 144, 224,
       240, 128, 240, 128, 240,   240, 128, 240, 128, 128 >>

---------------------------------------------------------------------------
(* Fixed-width integer arithmetic as the Rust operators compute it *)

RECURSIVE BitAnd(_, _)
\* a & b, bit by bit from the lowest
BitAnd(a, b) ==
    IF a = 0 \/ b = 0 THEN 0
    ELSE (IF a % 2 = 1 /\ b % 2 = 1 THEN 1 ELSE 0) + 2 * BitAnd(a \div 2, b \div 2)

RECURSIVE BitOr(_, _)
\* a | b
BitOr(a, b) ==
    IF a = 0 THEN b
    ELSE IF b = 0 THEN a
    ELSE (IF a % 2 = 1 \/ b % 2 = 1 THEN 1 ELSE 0) + 2 * BitOr(a \div 2, b \div 2)

RECURSIVE BitXor(_, _)
\* a ^ b
BitXor(a, b) ==
    IF a = 0 THEN b
    ELSE IF b = 0 THEN a
    ELSE ((a + b) % 2) + 2 * BitXor(a \div 2, b \div 2)

\* u8::overflowing_add: the wrapped sum and whether it wrapped
overflowing_add(a, b) == [res |-> (a + b) % 256, has_overflow |-> a + b > 255]

\* u8::overflowing_sub: the wrapped difference and whether it wrapped
overflowing_sub(a, b) == [res |-> (a - b) % 256, has_overflow |-> a < b]

\* u8::saturating_sub(1)
saturating_sub1(a) == IF a = 0 THEN 0 ELSE a - 1

---------------------------------------------------------------------------
(* opcode.rs *)

\* The two bytes taken in the other order: (lo << 8) | hi.
OpCode_from_swapped(hi, lo) == BitOr(lo * 256, hi)

\* From<(u8, u8)>: (hi << 8) | lo
OpCode_from(hi, lo) == BitOr(hi * 256, lo)

nibbles(opcode) ==
    << BitAnd(opcode, 61440) \div 4096,
       BitAnd(opcode, 3840) \div 256,
       BitAnd(opcode, 240) \div 16,
       BitAnd(opcode, 15) >>

nnn(opcode) == BitAnd(opcode, 4095)

kk(opcode) == BitAnd(opcode, 255) % 256

x(opcode) == nibbles(opcode)[2]

y(opcode) == nibbles(opcode)[3]

n(opcode) == nibbles(opcode)[4]

---------------------------------------------------------------------------
(* The interpreter as a record, and a panic *)

\* The fields of struct Chip8 as they stand now.
Cur ==
    [ registers |-> registers, memory |-> memory, index |-> index,
      program_counter |-> program_counter, stack |-> stack,
      stack_pointer |-> stack_pointer, delay_timer |-> delay_timer,
      sound_timer |-> sound_timer, keys |-> keys, buffer |-> buffer,
      panic |-> FALSE ]

\* panic!/assert!/unreachable!/a failed bounds check: the operation stops here,
\* with whatever it has written so far.
Panic(c) == [c EXCEPT !.panic = TRUE]

\* `v += d` on an unsigned integer of 2^w values: a panic in a build with
\* overflow checks, the wrapped sum otherwise.
AddAssign(v, d, modulus) ==
    [ val |-> (v + d) % modulus, panic |-> overflow_checks /\ v + d >= modulus ]

\* `v -= d` on an unsigned integer of 2^w values.
SubAssign(v, d, modulus) ==
    [ val |-> (v - d) % modulus, panic |-> overflow_checks /\ v < d ]

---------------------------------------------------------------------------
(* subsystem/timer.rs, subsystem/keypad.rs, reg.rs *)

\* Timer::tick with a wrapping subtraction: 0 goes to 255.
Timer_tick_wraps(count) == (count + 255) % 256

Timer_tick(count) == saturating_sub1(count)

Timer_cur_count(count) == count

Timer_set(count, val) == val

\* Keypad::is_key_pressed without the assert: the bit numbered key mod 16.
is_key_pressed_unchecked(k, key) ==
    [panic |-> FALSE, val |-> BitAnd(k, 2 ^ (key % 16)) # 0]

\* Keypad::is_key_pressed: assert!(key < NUM_KEYS), then the key's bit.
is_key_pressed(k, key) ==
    IF ~(key < NUM_KEYS) THEN [panic |-> TRUE, val |-> FALSE]
    ELSE [panic |-> FALSE, val |-> BitAnd(k, 2 ^ key) # 0]

\* pressed_key scanning from key 15 down: the last key that is down.
pressed_key_from_top(k) ==
    IF \E i \in 0..15 : is_key_pressed(k, i).val
    THEN CHOOSE i \in 0..15 :
            /\ is_key_pressed(k, i).val
            /\ \A j \in (i + 1)..15 : ~is_key_pressed(k, j).val
    ELSE 16

\* Keypad::pressed_key: the first of 0..15 that is down, 16 standing for None.
pressed_key(k) ==
    IF \E i \in 0..15 : is_key_pressed(k, i).val
    THEN CHOOSE i \in 0..15 :
            /\ is_key_pressed(k, i).val
            /\ \A j \in 0..(i - 1) : ~is_key_pressed(k, j).val
    ELSE 16

\* IndexRegister::load: assert!(v <= U12_MAX), then the store.
IndexRegister_load(c, v) ==
    IF ~(v <= U12_MAX) THEN Panic(c) ELSE [c EXCEPT !.index = v]

IndexRegister_get(c) == c.index

---------------------------------------------------------------------------
(* video/coords.rs, video/mod.rs *)

DrawCoords_new(pos_x, pos_y) ==
    [pos_x |-> pos_x % WIDTH_PIXELS, pos_y |-> pos_y % HEIGHT_PIXELS]

Video_default == [i \in 0..(WIDTH_PIXELS * HEIGHT_PIXELS - 1) |-> 0]

Video_clear(buf) == [i \in DOMAIN buf |-> 0]

\* draw_pixel with the pixel set (|= 0xFF) where the code flips it (^= 0xFF).
draw_pixel_sets(d, sprite, coords, row, col) ==
    LET sprite_pixel == BitAnd(sprite[row + 1], 128 \div (2 ^ col))
        i == (coords.pos_y + row) * WIDTH_PIXELS + (coords.pos_x + col)
    IN  IF ~(i < WIDTH_PIXELS * HEIGHT_PIXELS) THEN [d EXCEPT !.panic = TRUE]
        ELSE IF sprite_pixel # 0
             THEN [ buffer |-> [d.buffer EXCEPT ![i] = BitOr(@, 255)],
                    has_overlap |-> d.has_overlap \/ d.buffer[i] # 0,
                    panic |-> FALSE ]
             ELSE d

\* draw_pixel with the overlap tested after the flip instead of before it.
draw_pixel_tests_late(d, sprite, coords, row, col) ==
    LET sprite_pixel == BitAnd(sprite[row + 1], 128 \div (2 ^ col))
        i == (coords.pos_y + row) * WIDTH_PIXELS + (coords.pos_x + col)
    IN  IF ~(i < WIDTH_PIXELS * HEIGHT_PIXELS) THEN [d EXCEPT !.panic = TRUE]
        ELSE IF sprite_pixel # 0
             THEN [ buffer |-> [d.buffer EXCEPT ![i] = BitXor(@, 255)],
                    has_overlap |-> d.has_overlap \/ BitXor(d.buffer[i], 255) # 0,
                    panic |-> FALSE ]
             ELSE d

\* draw_pixel flipping only the lowest bit of the pixel (^= 0x01).
draw_pixel_low_bit(d, sprite, coords, row, col) ==
    LET sprite_pixel == BitAnd(sprite[row + 1], 128 \div (2 ^ col))
        i == (coords.pos_y + row) * WIDTH_PIXELS + (coords.pos_x + col)
    IN  IF ~(i < WIDTH_PIXELS * HEIGHT_PIXELS) THEN [d EXCEPT !.panic = TRUE]
        ELSE IF sprite_pixel # 0
             THEN [ buffer |-> [d.buffer EXCEPT ![i] = BitXor(@, 1)],
                    has_overlap |-> d.has_overlap \/ d.buffer[i] # 0,
                    panic |-> FALSE ]
             ELSE d

\* The body of the inner loop of Video::draw for one (row, col): the pixel is
\* indexed (a bounds check) whatever the sprite bit is, then flipped if it is set.
draw_pixel(d, sprite, coords, row, col) ==
    LET sprite_pixel == BitAnd(sprite[row + 1], 128 \div (2 ^ col))
        i == (coords.pos_y + row) * WIDTH_PIXELS + (coords.pos_x + col)
    IN  IF ~(i < WIDTH_PIXELS * HEIGHT_PIXELS) THEN [d EXCEPT !.panic = TRUE]
        ELSE IF sprite_pixel # 0
             THEN [ buffer |-> [d.buffer EXCEPT ![i] = BitXor(@, 255)],
                    has_overlap |-> d.has_overlap \/ d.buffer[i] # 0,
                    panic |-> FALSE ]
             ELSE d

RECURSIVE draw_cols(_, _, _, _, _)
\* The inner loop of Video::draw, `for col in 0..8`, from column col on.
draw_cols(d, sprite, coords, row, col) ==
    IF d.panic \/ col >= 8 THEN d
    ELSE draw_cols(draw_pixel(d, sprite, coords, row, col), sprite, coords, row, col + 1)

RECURSIVE draw_rows(_, _, _, _)
\* The outer loop of Video::draw, over the bytes of the sprite, from row on.
draw_rows(d, sprite, coords, row) ==
    IF d.panic \/ row >= Len(sprite) THEN d
    ELSE draw_rows(draw_cols(d, sprite, coords, row, 0), sprite, coords, row + 1)

\* Video::draw: the buffer left behind, the value returned, and whether it panicked.
Video_draw(buf, sprite, coords) ==
    draw_rows([buffer |-> buf, has_overlap |-> FALSE, panic |-> FALSE], sprite, coords, 0)

---------------------------------------------------------------------------
(* chip8.rs: construction, load_rom, fetch *)

\* Chip8::default with the glyph table copied to address 0.
Chip8_default_font_at_zero ==
    [ registers |-> [i \in 0..15 |-> 0],
      memory |-> [a \in 0..(MEMORY_SIZE_BYTES - 1) |->
                    IF a < Len(FONT_SET) THEN FONT_SET[a + 1] ELSE 0],
      index |-> 0,
      program_counter |-> PROG_CTR_START_ADDR,
      stack |-> [i \in 0..15 |-> 0],
      stack_pointer |-> 0,
      delay_timer |-> 0,
      sound_timer |-> 0,
      keys |-> 0,
      buffer |-> Video_default,
      panic |-> FALSE ]

\* Chip8::default: everything zero, the glyph table copied to 0x50.
Chip8_default ==
    [ registers |-> [i \in 0..15 |-> 0],
      memory |-> [a \in 0..(MEMORY_SIZE_BYTES - 1) |->
                    IF a >= FONTSET_START_ADDR /\ a < FONTSET_START_ADDR + Len(FONT_SET)
                    THEN FONT_SET[a - FONTSET_START_ADDR + 1] ELSE 0],
      index |-> 0,
      program_counter |-> PROG_CTR_START_ADDR,
      stack |-> [i \in 0..15 |-> 0],
      stack_pointer |-> 0,
      delay_timer |-> 0,
      sound_timer |-> 0,
      keys |-> 0,
      buffer |-> Video_default,
      panic |-> FALSE ]

RECURSIVE copy_bytes(_, _, _, _)
\* The copy byte after byte, from byte i of the source on.
copy_bytes(mem, first, bytes, i) ==
    IF i > Len(bytes) THEN mem
    ELSE copy_bytes([mem EXCEPT ![first + i - 1] = bytes[i]], first, bytes, i + 1)

\* memory[first ..].copy_from_slice(bytes), from byte i of the source on: byte
\* after byte for a short source, all addresses at once for a long one.
copy_from_slice(mem, first, bytes, i) ==
    LET end == first + Len(bytes)
    IN  IF end - first - i < 64 THEN copy_bytes(mem, first, bytes, i)
        ELSE [a \in DOMAIN mem |->
                IF a >= first + i - 1 /\ a < end THEN bytes[a - first + 1] ELSE mem[a]]

\* load_rom that also restarts the program: the program counter set to 0x200.
load_rom_restarts(c, bytes) ==
    LET nbytes == Len(bytes)
    IN  IF nbytes = 0 \/ nbytes > MAX_ROM_SIZE_BYTES
        THEN [c |-> c, err |-> TRUE]
        ELSE [c |-> [c EXCEPT !.memory =
                        copy_from_slice(@, PROG_CTR_START_ADDR, bytes, 1),
                              !.program_counter = PROG_CTR_START_ADDR],
              err |-> FALSE]

\* load_rom without the test for an empty buffer.
load_rom_takes_empty(c, bytes) ==
    LET nbytes == Len(bytes)
    IN  IF nbytes > MAX_ROM_SIZE_BYTES
        THEN [c |-> c, err |-> TRUE]
        ELSE [c |-> [c EXCEPT !.memory =
                        copy_from_slice(@, PROG_CTR_START_ADDR, bytes, 1)],
              err |-> FALSE]

\* Chip8::load_rom: an error for a length of 0 or above MAX_ROM_SIZE_BYTES,
\* otherwise the bytes copied to 0x200.
load_rom(c, bytes) ==
    LET nbytes == Len(bytes)
    IN  IF nbytes = 0 \/ nbytes > MAX_ROM_SIZE_BYTES
        THEN [c |-> c, err |-> TRUE]
        ELSE [c |-> [c EXCEPT !.memory =
                        copy_from_slice(@, PROG_CTR_START_ADDR, bytes, 1)],
              err |-> FALSE]

\* Chip8::next_opcode asking for two bytes more than it reads.
next_opcode_strict(c) ==
    IF ~(c.program_counter + 2 < MEMORY_SIZE_BYTES)
    THEN [c |-> Panic(c), opcode |-> 0]
    ELSE [c |-> [c EXCEPT !.program_counter = c.program_counter + 2],
          opcode |-> OpCode_from(c.memory[c.program_counter],
                                 c.memory[c.program_counter + 1])]

\* Chip8::next_opcode: the assert on the program counter, the two bytes read,
\* the program counter advanced by 2.
next_opcode(c) ==
    IF ~(c.program_counter + 1 < MEMORY_SIZE_BYTES)
    THEN [c |-> Panic(c), opcode |-> 0]
    ELSE LET a == AddAssign(c.program_counter, 2, 65536)
             opcode == OpCode_from(c.memory[c.program_counter],
                                   c.memory[c.program_counter + 1])
         IN  IF a.panic THEN [c |-> Panic(c), opcode |-> opcode]
             ELSE [c |-> [c EXCEPT !.program_counter = a.val], opcode |-> opcode]

\* `self.program_counter += 2` of the skip instructions.
skip(c) ==
    LET a == AddAssign(c.program_counter, 2, 65536)
    IN  IF a.panic THEN Panic(c) ELSE [c EXCEPT !.program_counter = a.val]

---------------------------------------------------------------------------
(* chip8.rs: the opcode handlers *)

op_00E0(c) == [c EXCEPT !.buffer = Video_clear(@)]

\* RET reading the slot before the decrement.
op_00EE_pops_late(c) ==
    IF ~(c.stack_pointer < 16) THEN Panic(c)
    ELSE LET c1 == [c EXCEPT !.program_counter = c.stack[c.stack_pointer]]
             s == SubAssign(c.stack_pointer, 1, 256)
         IN  IF s.panic THEN Panic(c1) ELSE [c1 EXCEPT !.stack_pointer = s.val]

\* RET: the decrement, then the indexing of the stack (a bounds check).
op_00EE(c) ==
    LET s == SubAssign(c.stack_pointer, 1, 256)
    IN  IF s.panic THEN Panic(c)
        ELSE LET c1 == [c EXCEPT !.stack_pointer = s.val]
             IN  IF ~(c1.stack_pointer < 16) THEN Panic(c1)
                 ELSE [c1 EXCEPT !.program_counter = c1.stack[c1.stack_pointer]]

op_1nnn(c, opcode) == [c EXCEPT !.program_counter = nnn(opcode)]

\* CALL: the indexed store into the stack (a bounds check), the increment, the jump.
op_2nnn(c, opcode) ==
    IF ~(c.stack_pointer < 16) THEN Panic(c)
    ELSE LET c1 == [c EXCEPT !.stack[c.stack_pointer] = c.program_counter]
             s == AddAssign(c1.stack_pointer, 1, 256)
         IN  IF s.panic THEN Panic(c1)
             ELSE [c1 EXCEPT !.stack_pointer = s.val, !.program_counter = nnn(opcode)]

op_3xkk(c, opcode) ==
    IF c.registers[x(opcode)] = kk(opcode) THEN skip(c) ELSE c

\* SNE Vx, byte with the comparison of SE Vx, byte.
op_4xkk_when_equal(c, opcode) ==
    IF c.registers[x(opcode)] = kk(opcode) THEN skip(c) ELSE c

op_4xkk(c, opcode) ==
    IF c.registers[x(opcode)] # kk(opcode) THEN skip(c) ELSE c

op_5xy0(c, opcode) ==
    IF c.registers[x(opcode)] = c.registers[y(opcode)] THEN skip(c) ELSE c

op_6xkk(c, opcode) == [c EXCEPT !.registers[x(opcode)] = kk(opcode)]

\* ADD Vx, byte: `+=` on a u8.
op_7xkk(c, opcode) ==
    LET a == AddAssign(c.registers[x(opcode)], kk(opcode), 256)
    IN  IF a.panic THEN Panic(c) ELSE [c EXCEPT !.registers[x(opcode)] = a.val]

op_8xy0(c, opcode) == [c EXCEPT !.registers[x(opcode)] = c.registers[y(opcode)]]

op_8xy1(c, opcode) ==
    [c EXCEPT !.registers[x(opcode)] = BitOr(@, c.registers[y(opcode)])]

op_8xy2(c, opcode) ==
    [c EXCEPT !.registers[x(opcode)] = BitAnd(@, c.registers[y(opcode)])]

op_8xy3(c, opcode) ==
    [c EXCEPT !.registers[x(opcode)] = BitXor(@, c.registers[y(opcode)])]

\* The two stores that end op_8xy4 .. op_8xyE, in the order the code makes them:
\* registers[0x0F] first, registers[x] second.
set_flag_then_vx(c, opcode, flag, res) ==
    LET c1 == [c EXCEPT !.registers[15] = flag]
    IN  [c1 EXCEPT !.registers[x(opcode)] = res]

op_8xy4(c, opcode) ==
    LET r == overflowing_add(c.registers[x(opcode)], c.registers[y(opcode)])
    IN  set_flag_then_vx(c, opcode, IF r.has_overflow THEN 1 ELSE 0, r.res)

op_8xy5(c, opcode) ==
    LET r == overflowing_sub(c.registers[x(opcode)], c.registers[y(opcode)])
    IN  set_flag_then_vx(c, opcode, IF ~r.has_overflow THEN 1 ELSE 0, r.res)

op_8xy6(c, opcode) ==
    LET vx == c.registers[x(opcode)]
    IN  set_flag_then_vx(c, opcode, BitAnd(vx, 1), vx \div 2)

op_8xy7(c, opcode) ==
    LET r == overflowing_sub(c.registers[y(opcode)], c.registers[x(opcode)])
    IN  set_flag_then_vx(c, opcode, IF ~r.has_overflow THEN 1 ELSE 0, r.res)

op_8xyE(c, opcode) ==
    LET vx == c.registers[x(opcode)]
    IN  set_flag_then_vx(c, opcode, BitAnd(vx \div 128, 1), (vx * 2) % 256)

op_9xy0(c, opcode) ==
    IF c.registers[x(opcode)] # c.registers[y(opcode)] THEN skip(c) ELSE c

op_Annn(c, opcode) == IndexRegister_load(c, nnn(opcode))

\* JP V0, addr: V0 plus nnn cast to u8, added as u8, the sum widened to u16.
op_Bnnn(c, opcode) ==
    LET a == AddAssign(c.registers[0], nnn(opcode) % 256, 256)
    IN  IF a.panic THEN Panic(c) ELSE [c EXCEPT !.program_counter = a.val]

\* RND with the mask left out: Vx = random byte.
op_Cxkk_unmasked(c, opcode, rand_byte) ==
    [c EXCEPT !.registers[x(opcode)] = rand_byte]

op_Cxkk(c, opcode, rand_byte) ==
    [c EXCEPT !.registers[x(opcode)] = BitAnd(rand_byte, kk(opcode))]

\* DRW: the coordinates are built from the nibbles x and y of the opcode, the
\* sprite is the slice memory[I .. I+n] (a bounds check), and the value
\* Video::draw returns is dropped.
op_Dxyn(c, opcode) ==
    LET coords == DrawCoords_new(x(opcode), y(opcode))
        height == n(opcode)
        first == IndexRegister_get(c)
    IN  IF first + height > MEMORY_SIZE_BYTES THEN Panic(c)
        ELSE LET sprite == [r \in 1..height |-> c.memory[first + r - 1]]
                 d == Video_draw(c.buffer, sprite, coords)
             IN  [c EXCEPT !.buffer = d.buffer, !.panic = d.panic]

op_Ex9E(c, opcode) ==
    LET p == is_key_pressed(c.keys, c.registers[x(opcode)])
    IN  IF p.panic THEN Panic(c) ELSE IF p.val THEN skip(c) ELSE c

op_ExA1(c, opcode) ==
    LET p == is_key_pressed(c.keys, c.registers[x(opcode)])
    IN  IF p.panic THEN Panic(c) ELSE IF ~p.val THEN skip(c) ELSE c

op_Fx07(c, opcode) ==
    [c EXCEPT !.registers[x(opcode)] = Timer_cur_count(c.delay_timer)]

\* LD Vx, K going on to the next instruction when no key is down.
op_Fx0A_moves_on(c, opcode) ==
    LET k == pressed_key(c.keys)
    IN  IF k < 16 THEN [c EXCEPT !.registers[x(opcode)] = k] ELSE c

\* LD Vx, K: the key that is down, or the program counter moved back by 2.
op_Fx0A(c, opcode) ==
    LET k == pressed_key(c.keys)
    IN  IF k < 16 THEN [c EXCEPT !.registers[x(opcode)] = k]
        ELSE LET s == SubAssign(c.program_counter, 2, 65536)
             IN  IF s.panic THEN Panic(c) ELSE [c EXCEPT !.program_counter = s.val]

op_Fx15(c, opcode) ==
    [c EXCEPT !.delay_timer = Timer_set(@, c.registers[x(opcode)])]

op_Fx18(c, opcode) ==
    [c EXCEPT !.sound_timer = Timer_set(@, c.registers[x(opcode)])]

\* `self.index += Vx`: the 16-bit store plus an 8-bit value, no range check.
IndexRegister_add(c, v) ==
    LET a == AddAssign(c.index, v, 65536)
    IN  IF a.panic THEN Panic(c) ELSE [c EXCEPT !.index = a.val]

op_Fx1E(c, opcode) == IndexRegister_add(c, c.registers[x(opcode)])

\* LD F, Vx for glyphs of one byte.
op_Fx29_unscaled(c, opcode) ==
    IndexRegister_load(c, (FONTSET_START_ADDR + c.registers[x(opcode)]) % 65536)

op_Fx29(c, opcode) ==
    IndexRegister_load(c, (FONTSET_START_ADDR + 5 * c.registers[x(opcode)]) % 65536)

RECURSIVE bcd_from(_, _, _)
\* The loop of op_Fx33 from offset i down to 0: memory[I + i] = val % 10; val /= 10.
bcd_from(c, val, i) ==
    IF i < 0 THEN c
    ELSE IF ~(IndexRegister_get(c) + i < MEMORY_SIZE_BYTES) THEN Panic(c)
    ELSE bcd_from([c EXCEPT !.memory[IndexRegister_get(c) + i] = val % 10],
                  val \div 10, i - 1)

\* LD B, Vx with the ones digit first.
op_Fx33_ones_first(c, opcode) ==
    LET val == c.registers[x(opcode)]
        first == IndexRegister_get(c)
    IN  IF ~(first + 2 < MEMORY_SIZE_BYTES) THEN Panic(c)
        ELSE [c EXCEPT !.memory[first] = val % 10,
                       !.memory[first + 1] = (val \div 10) % 10,
                       !.memory[first + 2] = val \div 100]

op_Fx33(c, opcode) == bcd_from(c, c.registers[x(opcode)], 2)

RECURSIVE store_from(_, _, _)
\* The loop of op_Fx55 from i up to last: memory[I + i] = registers[i].
store_from(c, last, i) ==
    IF i > last THEN c
    ELSE IF ~(IndexRegister_get(c) + i < MEMORY_SIZE_BYTES) THEN Panic(c)
    ELSE store_from([c EXCEPT !.memory[IndexRegister_get(c) + i] = c.registers[i]],
                    last, i + 1)

op_Fx55(c, opcode) == store_from(c, x(opcode), 0)

RECURSIVE load_from(_, _, _)
\* The loop of op_Fx65 from i up to last: registers[i] = memory[I + i].
load_from(c, last, i) ==
    IF i > last THEN c
    ELSE IF ~(IndexRegister_get(c) + i < MEMORY_SIZE_BYTES) THEN Panic(c)
    ELSE load_from([c EXCEPT !.registers[i] = c.memory[IndexRegister_get(c) + i]],
                   last, i + 1)

\* The loop of op_Fx65 started at register 1.
op_Fx65_from_one(c, opcode) == load_from(c, x(opcode), 1)

op_Fx65(c, opcode) == load_from(c, x(opcode), 0)

---------------------------------------------------------------------------
(* chip8.rs: the dispatch of Chip8::tick and the step itself *)

\* The last arm taken as an instruction that does nothing.
unrecognised_skipped(c, opcode) == c

\* The last arm of the match: unreachable!, a panic.
unrecognised(c, opcode) == Panic(c)

\* The match on opcode.nibbles(): the arms in the order of the source, each
\* with the nibble patterns written there.
dispatch(c, opcode, rand_byte) ==
    LET nb == nibbles(opcode)
    IN  CASE nb[1] = 0 /\ nb[2] = 0 /\ nb[3] = 14 /\ nb[4] = 0  -> op_00E0(c)
          [] nb[1] = 0 /\ nb[2] = 0 /\ nb[3] = 14 /\ nb[4] = 14 -> op_00EE(c)
          [] nb[1] = 1 -> op_1nnn(c, opcode)
          [] nb[1] = 2 -> op_2nnn(c, opcode)
          [] nb[1] = 3 -> op_3xkk(c, opcode)
          [] nb[1] = 4 -> op_4xkk(c, opcode)
          [] nb[1] = 5 /\ nb[4] = 0 -> op_5xy0(c, opcode)
          [] nb[1] = 6 -> op_6xkk(c, opcode)
          [] nb[1] = 7 -> op_7xkk(c, opcode)
          [] nb[1] = 8 /\ nb[4] = 0 -> op_8xy0(c, opcode)
          [] nb[1] = 8 /\ nb[4] = 1 -> op_8xy1(c, opcode)
          [] nb[1] = 8 /\ nb[4] = 2 -> op_8xy2(c, opcode)
          [] nb[1] = 8 /\ nb[4] = 3 -> op_8xy3(c, opcode)
          [] nb[1] = 8 /\ nb[4] = 4 -> op_8xy4(c, opcode)
          [] nb[1] = 8 /\ nb[4] = 5 -> op_8xy5(c, opcode)
          [] nb[1] = 8 /\ nb[4] = 6 -> op_8xy6(c, opcode)
          [] nb[1] = 8 /\ nb[4] = 7 -> op_8xy7(c, opcode)
          [] nb[1] = 8 /\ nb[4] = 14 -> op_8xyE(c, opcode)
          [] nb[1] = 9 /\ nb[4] = 0 -> op_9xy0(c, opcode)
          [] nb[1] = 10 -> op_Annn(c, opcode)
          [] nb[1] = 11 -> op_Bnnn(c, opcode)
          [] nb[1] = 12 -> op_Cxkk(c, opcode, rand_byte)
          [] nb[1] = 13 -> op_Dxyn(c, opcode)
          [] nb[1] = 14 /\ nb[3] = 9 /\ nb[4] = 14 -> op_Ex9E(c, opcode)
          [] nb[1] = 14 /\ nb[3] = 10 /\ nb[4] = 1 -> op_ExA1(c, opcode)
          [] nb[1] = 15 /\ nb[3] = 0 /\ nb[4] = 7  -> op_Fx07(c, opcode)
          [] nb[1] = 15 /\ nb[3] = 0 /\ nb[4] = 10 -> op_Fx0A(c, opcode)
          [] nb[1] = 15 /\ nb[3] = 1 /\ nb[4] = 5  -> op_Fx15(c, opcode)
          [] nb[1] = 15 /\ nb[3] = 1 /\ nb[4] = 8  -> op_Fx18(c, opcode)
          [] nb[1] = 15 /\ nb[3] = 1 /\ nb[4] = 14 -> op_Fx1E(c, opcode)
          [] nb[1] = 15 /\ nb[3] = 2 /\ nb[4] = 9  -> op_Fx29(c, opcode)
          [] nb[1] = 15 /\ nb[3] = 3 /\ nb[4] = 3  -> op_Fx33(c, opcode)
          [] nb[1] = 15 /\ nb[3] = 1 /\ nb[4] = 85  -> op_Fx55(c, opcode)
          [] nb[1] = 15 /\ nb[3] = 1 /\ nb[4] = 101 -> op_Fx65(c, opcode)
          [] OTHER -> unrecognised(c, opcode)

\* Chip8::tick with the timers ticked before the instruction runs.
tick_timers_first(c, rand_byte) ==
    LET f == next_opcode(c)
    IN  IF f.c.panic THEN f.c
        ELSE dispatch([f.c EXCEPT !.delay_timer = Timer_tick(@),
                                  !.sound_timer = Timer_tick(@)],
                      f.opcode, rand_byte)

\* Chip8::tick: fetch, dispatch, then both timers ticked.
tick(c, rand_byte) ==
    LET f == next_opcode(c)
    IN  IF f.c.panic THEN f.c
        ELSE LET d == dispatch(f.c, f.opcode, rand_byte)
             IN  IF d.panic THEN d
                 ELSE [d EXCEPT !.delay_timer = Timer_tick(@),
                                !.sound_timer = Timer_tick(@)]

---------------------------------------------------------------------------
(* The state machine *)

\* The interpreter's fields take the values of record c.
Commit(c) ==
    /\ registers' = c.registers
    /\ memory' = c.memory
    /\ index' = c.index
    /\ program_counter' = c.program_counter
    /\ stack' = c.stack
    /\ stack_pointer' = c.stack_pointer
    /\ delay_timer' = c.delay_timer
    /\ sound_timer' = c.sound_timer
    /\ keys' = c.keys
    /\ buffer' = c.buffer

NoOp == [kind |-> "none", opcode |-> 0, rand_byte |-> 0, bytes |-> <<>>]

\* Chip8::default(), in a build with or without overflow checks.
Init ==
    /\ registers = Chip8_default.registers
    /\ memory = Chip8_default.memory
    /\ index = Chip8_default.index
    /\ program_counter = Chip8_default.program_counter
    /\ stack = Chip8_default.stack
    /\ stack_pointer = Chip8_default.stack_pointer
    /\ delay_timer = Chip8_default.delay_timer
    /\ sound_timer = Chip8_default.sound_timer
    /\ keys = Chip8_default.keys
    /\ buffer = Chip8_default.buffer
    /\ overflow_checks \in BOOLEAN
    /\ phase = "constructed"
    /\ prev = Chip8_default
    /\ last_op = NoOp
    /\ draw_log = <<>>
    /\ call_log = <<>>

\* main.rs: the ROM is loaded once, right after construction; an error ends the run.
LoadRom(roms) ==
    /\ phase = "constructed"
    /\ \E bytes \in roms :
          LET r == load_rom(Cur, bytes)
          IN  /\ Commit(r.c)
              /\ phase' = IF r.err THEN "exited" ELSE "running"
              /\ last_op' = [kind |-> "load_rom", opcode |-> 0, rand_byte |-> 0,
                             bytes |-> bytes]
    /\ prev' = Cur
    /\ UNCHANGED <<overflow_checks, draw_log, call_log>>

\* The bytes the random number generator can hand to the Cxkk arm.
RandBytes == {0, 85, 255}

\* lib.rs, Chip8Runner::start: one call of Chip8::tick.  The random byte is drawn
\* only in the Cxkk arm.  A panic ends the run.
Tick ==
    /\ phase = "running"
    /\ LET f == next_opcode(Cur)
           draws == ~f.c.panic /\ nibbles(f.opcode)[1] = 12
       IN  \E rand_byte \in (IF draws THEN RandBytes ELSE {0}) :
              LET r == tick(Cur, rand_byte)
              IN  /\ Commit(r)
                  /\ phase' = IF r.panic THEN "panicked" ELSE "running"
                  /\ last_op' = [kind |-> IF f.c.panic THEN "fetch_panic" ELSE "tick",
                                 opcode |-> f.opcode, rand_byte |-> rand_byte,
                                 bytes |-> <<>>]
    /\ prev' = Cur
    /\ UNCHANGED <<overflow_checks, draw_log, call_log>>

---------------------------------------------------------------------------
(* Programs: registers loaded with 6xkk, then the instruction under study *)

MaxLow == 1

MaxReg == 1

\* Byte values around both ends of the range and around the top bit.
ByteSamples == (0..MaxLow) \cup {127, 128} \cup ((255 - MaxLow)..255)

\* Register indices: the low ones and the flag register.
RegSamples == (0..MaxReg) \cup {15}

AluOps == {4, 5, 6, 7, 14}

\* 6x<a>  6y<b>  8xy<op>
AluRom(rx, ry, a, b, op) == <<96 + rx, a, 96 + ry, b, 128 + rx, 16 * ry + op>>

\* 6x<a>  7x<k>
AddByteRom(rx, a, k) == <<96 + rx, a, 112 + rx, k>>

\* 60<a>  Bnnn
JumpV0Rom(a, addr) == <<96, a, 176 + (addr \div 256), addr % 256>>

AddrSamples == {17, 255, 273, 512, 767, 4095}

SpriteSamples == {<<128>>, <<240, 144>>}

\* 6x<a>  6y<b>  A20C  Dxyn  Dxyn  120A (jump to self)  sprite
DrawRom(rx, ry, a, b, sprite) ==
    <<96 + rx, a, 96 + ry, b, 162, 12, 208 + rx, 16 * ry + Len(sprite),
      208 + rx, 16 * ry + Len(sprite), 18, 10>> \o sprite

OpsRoms ==
    {AluRom(rx, ry, a, b, op) :
        rx \in RegSamples, ry \in RegSamples, a \in ByteSamples, b \in ByteSamples,
        op \in AluOps}
    \cup {AddByteRom(rx, a, k) : rx \in RegSamples, a \in ByteSamples, k \in ByteSamples}
    \cup {<<97, 5, 113, 3>>}
    \cup {JumpV0Rom(a, addr) : a \in ByteSamples, addr \in AddrSamples}
    \cup {DrawRom(rx, ry, a, b, sprite) :
            rx \in {1, 2}, ry \in {1, 2}, a \in ByteSamples, b \in ByteSamples,
            sprite \in SpriteSamples}

LoadOpsRom == LoadRom(OpsRoms)

NextOps == LoadOpsRom \/ Tick

SpecOps == Init /\ [][NextOps]_vars

---------------------------------------------------------------------------
(* Programs: nested subroutines.  Subroutine i starts at 0x200 + 4i with a
   CALL to subroutine i+1 followed by a RET; the innermost level is a RET
   or memory the ROM does not cover *)

MaxCalls == 17

RECURSIVE CallChain(_, _)
\* Levels i .. k-1: CALL 0x200 + 4(i+1) ; RET
CallChain(i, k) ==
    IF i >= k THEN <<>>
    ELSE <<34, 4 * (i + 1), 0, 238>> \o CallChain(i + 1, k)

StackRoms == { CallChain(0, k) \o tail : k \in 0..MaxCalls, tail \in {<<>>, <<0, 238>>} }

LoadStackRom == LoadRom(StackRoms)

NextStack == LoadStackRom \/ Tick

SpecStack == Init /\ [][NextStack]_vars

---------------------------------------------------------------------------
(* Video::draw called on the display directly, as video/mod.rs's tests call it *)

MaxDraws == 3

\* Sprites of 2, 5 and 15 rows; the 5-row ones are the glyphs F and E of the
\* tests draw and draw_with_collision.
VideoSprites ==
    { <<255, 129>>, <<240, 128, 240, 128, 128>>, <<240, 128, 240, 128, 240>>,
      <<1, 0, 0, 0, 0, 0, 0, 0, 0, 0, 0, 0, 0, 0, 24>> }

\* Arguments of DrawCoords::new: the origin, a point beyond the width and height
\* (reduced modulo 64 and 32 to (56, 17)), and a point close enough to the right
\* and bottom edges for a sprite to run over them.
VideoAnchors == { <<0, 0>>, <<120, 49>>, <<60, 30>> }

Draw ==
    /\ phase = "constructed"
    /\ Len(draw_log) < MaxDraws
    /\ \E sprite \in VideoSprites, at \in VideoAnchors :
          LET coords == DrawCoords_new(at[1], at[2])
              d == Video_draw(buffer, sprite, coords)
          IN  /\ buffer' = d.buffer
              /\ phase' = IF d.panic THEN "panicked" ELSE phase
              /\ draw_log' = Append(draw_log,
                                [before |-> buffer, sprite |-> sprite, coords |-> coords,
                                 ret |-> d.has_overlap, panic |-> d.panic])
              /\ last_op' = [kind |-> "draw", opcode |-> 0, rand_byte |-> 0,
                             bytes |-> sprite]
    /\ UNCHANGED <<registers, memory, index, program_counter, stack, stack_pointer,
                   delay_timer, sound_timer, keys, overflow_checks, prev, call_log>>

NextVideo == Draw

\* The tests of video/mod.rs run in the test profile, which compiles overflow
\* checks in; Video::draw has no arithmetic they could trip.
InitVideo == Init /\ overflow_checks

SpecVideo == InitVideo /\ [][NextVideo]_vars

---------------------------------------------------------------------------
(* Claims about single instructions, checked under SpecOps *)

\* The last operation was a step that fetched an opcode with first nibble n1
\* and last nibble n4.
Fetched(n1, n4) ==
    /\ last_op.kind = "tick"
    /\ nibbles(last_op.opcode)[1] = n1
    /\ nibbles(last_op.opcode)[4] = n4

LastX == nibbles(last_op.opcode)[2]

LastY == nibbles(last_op.opcode)[3]

\* C1: executing 8xy4 leaves V15 = 1 if Vx + Vy > 255 and 0 otherwise, for every
\* x and y (x = 15 included: the flag is what V15 holds afterwards), and leaves
\* Vx = (Vx + Vy) mod 256 when x is not 15.
C1_AddSetsCarryLast ==
    Fetched(8, 4) =>
        LET a == prev.registers[LastX]
            b == prev.registers[LastY]
        IN  /\ phase = "running"
            /\ registers[15] = (IF a + b > 255 THEN 1 ELSE 0)
            /\ (LastX # 15 => registers[LastX] = (a + b) % 256)

\* The same statement restricted to x # 15, where the code agrees with it.
C1_AddCarryWhenXNotFlag ==
    (Fetched(8, 4) /\ LastX # 15) =>
        LET a == prev.registers[LastX]
            b == prev.registers[LastY]
        IN  /\ phase = "running"
            /\ registers[15] = (IF a + b > 255 THEN 1 ELSE 0)
            /\ registers[LastX] = (a + b) % 256

\* C2: executing 8xy5 leaves Vx = (Vx - Vy) mod 256 and V15 = 1 iff Vx >= Vy;
\* executing 8xy7 leaves Vx = (Vy - Vx) mod 256 and V15 = 1 iff Vy >= Vx; the
\* flag is what V15 holds afterwards also when x = 15.
C2_SubSetsNoBorrowLast ==
    LET a == prev.registers[LastX]
        b == prev.registers[LastY]
    IN  /\ Fetched(8, 5) =>
            /\ phase = "running"
            /\ registers[15] = (IF a >= b THEN 1 ELSE 0)
            /\ (LastX # 15 => registers[LastX] = (a - b) % 256)
        /\ Fetched(8, 7) =>
            /\ phase = "running"
            /\ registers[15] = (IF b >= a THEN 1 ELSE 0)
            /\ (LastX # 15 => registers[LastX] = (b - a) % 256)

\* C3: executing 8xy6 leaves V15 = Vx mod 2 and Vx = Vx div 2; executing 8xyE
\* leaves V15 = Vx div 128 and Vx = (2 * Vx) mod 256; V15 holds the bit shifted
\* out also when x = 15, and Vy is not changed.
C3_ShiftSetsBitLast ==
    LET v == prev.registers[LastX]
        vy_kept == (LastY # LastX /\ LastY # 15) =>
                        registers[LastY] = prev.registers[LastY]
    IN  /\ Fetched(8, 6) =>
            /\ phase = "running"
            /\ registers[15] = v % 2
            /\ (LastX # 15 => registers[LastX] = v \div 2)
            /\ vy_kept
        /\ Fetched(8, 14) =>
            /\ phase = "running"
            /\ registers[15] = v \div 128
            /\ (LastX # 15 => registers[LastX] = (2 * v) % 256)
            /\ vy_kept

\* The last operation was a step that fetched an opcode with first nibble n1.
FetchedFirst(n1) ==
    /\ last_op.kind = "tick"
    /\ nibbles(last_op.opcode)[1] = n1

\* C4: executing 7xkk completes and leaves Vx = (Vx + kk) mod 256, also when
\* the sum exceeds 255, and changes no other register; the program 6105 7103
\* stepped twice leaves V1 = 8.
C4_AddByteWraps ==
    FetchedFirst(7) =>
        LET v == prev.registers[LastX]
        IN  /\ phase = "running"
            /\ registers[LastX] = (v + (last_op.opcode % 256)) % 256
            /\ \A i \in 0..15 : i # LastX => registers[i] = prev.registers[i]
            /\ (last_op.opcode = 28931 /\ prev.registers[1] = 5) => registers[1] = 8

\* The sprite a Dxyn fetched in the previous state reads: memory[I .. I+n).
LastSprite ==
    [r \in 1..nibbles(last_op.opcode)[4] |-> prev.memory[prev.index + r - 1]]

\* C5: executing Dxyn draws memory[I .. I+n) at the anchor (Vx mod 64, Vy mod 32)
\* taken from the registers x and y, and leaves V15 = 1 if the draw collided and
\* V15 = 0 otherwise.
C5_DrawAtRegistersSetsFlag ==
    (FetchedFirst(13) /\ phase = "running") =>
        LET d == Video_draw(prev.buffer, LastSprite,
                            DrawCoords_new(prev.registers[LastX], prev.registers[LastY]))
        IN  /\ buffer = d.buffer
            /\ registers[15] = (IF d.has_overlap THEN 1 ELSE 0)

\* C6: executing Bnnn completes and sets pc = V0 + nnn with the full 12-bit nnn.
C6_JumpV0FullAddress ==
    FetchedFirst(11) =>
        /\ phase = "running"
        /\ program_counter = prev.registers[0] + (last_op.opcode % 4096)

---------------------------------------------------------------------------
(* Claims about Video::draw, checked under SpecVideo *)

\* Bit `col` of a sprite row, column 0 being the most significant bit.
SpriteBit(byte, col) == (byte \div (2 ^ (7 - col))) % 2 = 1

\* The pixels (row-major indices) under the set bits of a sprite drawn at coords.
TargetPixels(sprite, coords) ==
    { (coords.pos_y + r) * WIDTH_PIXELS + (coords.pos_x + col) :
        <<r, col>> \in { rc \in (0..(Len(sprite) - 1)) \X (0..7) :
                            SpriteBit(sprite[rc[1] + 1], rc[2]) } }

\* The buffer draw i of the log left behind: what the next draw found, or the
\* buffer as it is now.
After(i) == IF i < Len(draw_log) THEN draw_log[i + 1].before ELSE buffer

\* The 8-pixel-wide sprite lies entirely inside the 64x32 buffer.
Inside(sprite, coords) ==
    /\ coords.pos_x + 7 < WIDTH_PIXELS
    /\ coords.pos_y + Len(sprite) - 1 < HEIGHT_PIXELS

\* C7: a sprite of 1..15 rows with a set bit, drawn twice in a row at an anchor
\* where it lies inside the buffer, onto a buffer whose pixels under the set
\* bits are off: the buffer ends as it was before the first draw, the first
\* draw returns false and the second returns true.
C7_DrawTwiceRestores ==
    \A i \in 1..(Len(draw_log) - 1) :
        LET e1 == draw_log[i]
            e2 == draw_log[i + 1]
            t == TargetPixels(e1.sprite, e1.coords)
        IN  ( /\ e1.sprite = e2.sprite
              /\ e1.coords = e2.coords
              /\ Len(e1.sprite) \in 1..15
              /\ t # {}
              /\ Inside(e1.sprite, e1.coords)
              /\ \A px \in t : e1.before[px] = 0 )
            => /\ ~e1.panic /\ ~e2.panic
               /\ e1.ret = FALSE
               /\ e2.ret = TRUE
               /\ After(i + 1) = e1.before

\* C7's case: a background is on the screen, and a sprite has been drawn twice
\* beside it.
C7_Witness ==
    /\ Len(draw_log) = 3
    /\ draw_log[2].sprite = draw_log[3].sprite
    /\ draw_log[2].coords = draw_log[3].coords
    /\ Inside(draw_log[2].sprite, draw_log[2].coords)
    /\ TargetPixels(draw_log[2].sprite, draw_log[2].coords) # {}
    /\ \A px \in TargetPixels(draw_log[2].sprite, draw_log[2].coords) :
            draw_log[2].before[px] = 0
    /\ \E px \in DOMAIN buffer : draw_log[2].before[px] # 0
    /\ draw_log[3].ret = TRUE
    /\ buffer = draw_log[2].before

\* C8: a draw that returns, returns true iff some set bit of the sprite targets
\* a pixel that was on; two sprites with disjoint target pixels drawn onto a
\* cleared buffer both return false and leave exactly the union of their pixels
\* at 0xFF and every other pixel at 0.
C8_CollisionIffLitTarget ==
    /\ \A i \in 1..Len(draw_log) :
          LET e == draw_log[i]
          IN  ~e.panic =>
                (e.ret <=> \E px \in TargetPixels(e.sprite, e.coords) : e.before[px] # 0)
    /\ \A i \in 1..(Len(draw_log) - 1) :
          LET e1 == draw_log[i]
              e2 == draw_log[i + 1]
              t1 == TargetPixels(e1.sprite, e1.coords)
              t2 == TargetPixels(e2.sprite, e2.coords)
          IN  ( /\ \A px \in DOMAIN e1.before : e1.before[px] = 0
                /\ t1 \cap t2 = {}
                /\ ~e1.panic /\ ~e2.panic )
              => /\ e1.ret = FALSE
                 /\ e2.ret = FALSE
                 /\ After(i + 1) = [px \in DOMAIN e1.before |->
                                    IF px \in t1 \cup t2 THEN 255 ELSE 0]

\* C8's case: two sprites with disjoint, non-empty target pixels have been drawn
\* onto the cleared buffer, and a later draw has collided.
C8_Witness ==
    /\ Len(draw_log) = 3
    /\ TargetPixels(draw_log[1].sprite, draw_log[1].coords) # {}
    /\ TargetPixels(draw_log[2].sprite, draw_log[2].coords) # {}
    /\ TargetPixels(draw_log[1].sprite, draw_log[1].coords)
         \cap TargetPixels(draw_log[2].sprite, draw_log[2].coords) = {}
    /\ ~draw_log[2].panic
    /\ draw_log[2].ret = FALSE
    /\ draw_log[3].ret = TRUE

---------------------------------------------------------------------------
(* Claims about the call stack, checked under SpecStack *)

\* The last operation was a step that fetched exactly this opcode.
FetchedOpcode(opcode) == last_op.kind = "tick" /\ last_op.opcode = opcode

\* A CALL fetched with fewer than 16 return addresses on the stack completes,
\* stores the address after the CALL in the slot sp pointed at, and adds 1 to sp.
CallPushes ==
    (FetchedFirst(2) /\ prev.stack_pointer < 16) =>
        /\ phase = "running"
        /\ stack_pointer = prev.stack_pointer + 1
        /\ stack = [prev.stack EXCEPT ![prev.stack_pointer] = prev.program_counter + 2]
        /\ program_counter = last_op.opcode % 4096

\* A CALL fetched with 16 return addresses on the stack is fatal, writes no
\* slot and leaves sp at 16.
SeventeenthCallFatal ==
    (FetchedFirst(2) /\ prev.stack_pointer = 16) =>
        /\ phase = "panicked"
        /\ stack = prev.stack
        /\ stack_pointer = 16

\* After 16 CALLs from the empty stack the 16 slots hold the 16 return
\* addresses in call order.
SixteenCallsFill ==
    (phase = "running" /\ stack_pointer = 16 /\ FetchedFirst(2)) =>
        \A i \in 0..15 : stack[i] = PROG_CTR_START_ADDR + 4 * i + 2

\* C9: 16 consecutive CALLs from the empty stack succeed and leave sp = 16 with
\* the return addresses in slots 0..15 in call order; a 17th CALL is fatal,
\* writes nothing and does not wrap; in every reachable state 0 <= sp <= 16.
C9_StackDepthBounded ==
    /\ CallPushes
    /\ SixteenCallsFill
    /\ SeventeenthCallFatal
    /\ stack_pointer \in 0..16

\* C10: RET fetched with sp = 0 is fatal, sp does not wrap around, and pc is
\* not loaded from a stack slot (it keeps the value the fetch gave it).
C10_RetUnderflowFatal ==
    (FetchedOpcode(238) /\ prev.stack_pointer = 0) =>
        /\ phase = "panicked"
        /\ stack_pointer = 0
        /\ program_counter = prev.program_counter + 2

\* The part of C10 that holds in every build: the step is fatal and pc is not
\* loaded from a stack slot.
RetUnderflowNeverCompletes ==
    (FetchedOpcode(238) /\ prev.stack_pointer = 0) =>
        /\ phase = "panicked"
        /\ program_counter = prev.program_counter + 2

---------------------------------------------------------------------------
(* Programs that wait for a key, with the key state changing between steps *)

\* Key states: none, key 0, key 2, keys 2 and 9, key 15, all.
KeySamples == {0, 1, 4, 516, 32768, 65535}

\* The field `keys` of Keypad assigned between two steps.
SetKeys ==
    /\ phase = "running"
    /\ \E k \in KeySamples : k # keys /\ keys' = k
    /\ prev' = Cur
    /\ last_op' = [kind |-> "set_keys", opcode |-> 0, rand_byte |-> 0, bytes |-> <<>>]
    /\ UNCHANGED <<registers, memory, index, program_counter, stack, stack_pointer,
                   delay_timer, sound_timer, buffer, overflow_checks, phase, draw_log, call_log>>

\* 61<a>  F115  F118  Fy0A  1208 (jump to self)
KeyWaitRom(ry, a) == <<97, a, 241, 21, 241, 24, 240 + ry, 10, 18, 8>>

KeyRoms == {KeyWaitRom(ry, a) : ry \in {0, 1, 15}, a \in {0, 2, 5}}

LoadKeyRom == LoadRom(KeyRoms)

NextKeys == LoadKeyRom \/ SetKeys \/ Tick

SpecKeys == Init /\ [][NextKeys]_vars

---------------------------------------------------------------------------
(* Claims about the key wait, checked under SpecKeys *)

\* Key i is down in key state k.
KeyDown(k, i) == (k \div (2 ^ i)) % 2 = 1

LowestKeyDown(k) ==
    CHOOSE i \in 0..15 : KeyDown(k, i) /\ \A j \in 0..(i - 1) : ~KeyDown(k, j)

\* A timer value one step later.
OneLess(v) == IF v > 0 THEN v - 1 ELSE 0

\* The last operation was a step that fetched Fx0A.
FetchedKeyWait ==
    /\ last_op.kind = "tick"
    /\ nibbles(last_op.opcode)[1] = 15
    /\ nibbles(last_op.opcode)[3] = 0
    /\ nibbles(last_op.opcode)[4] = 10

\* C11: a step that fetches Fx0A at address A while no key is down leaves
\* pc = A and Vx unchanged (so the same instruction is fetched again); a step
\* that fetches it while a key is down sets Vx to the lowest key that is down
\* and leaves pc = A + 2; both timers tick on every one of these steps.
C11_KeyWaitSpins ==
    FetchedKeyWait =>
        /\ phase = "running"
        /\ delay_timer = OneLess(prev.delay_timer)
        /\ sound_timer = OneLess(prev.sound_timer)
        /\ memory = prev.memory
        /\ IF prev.keys = 0
           THEN /\ program_counter = prev.program_counter
                /\ registers = prev.registers
           ELSE /\ program_counter = prev.program_counter + 2
                /\ registers = [prev.registers EXCEPT ![LastX] = LowestKeyDown(prev.keys)]

\* Keys 2 and 9 went down after the wait had spun the delay timer from 4 to 0,
\* and the step loaded key 2.
C11_Witness ==
    /\ FetchedKeyWait
    /\ memory[513] = 5
    /\ prev.delay_timer = 0
    /\ prev.keys = 516
    /\ registers[LastX] = 2
    /\ program_counter = 520

---------------------------------------------------------------------------
(* load_rom called with buffers of every kind of length, on a fresh
   interpreter and again on one that has run *)

\* chip8.rs tests: load_rom called a second time on the same interpreter.  The
\* error is returned to the caller; the run is not followed further.
Reload(roms) ==
    /\ phase = "running"
    /\ \E bytes \in roms :
          LET r == load_rom(Cur, bytes)
          IN  /\ Commit(r.c)
              /\ phase' = IF r.err THEN "load_error" ELSE "reloaded"
              /\ last_op' = [kind |-> "load_rom", opcode |-> 0, rand_byte |-> 0,
                             bytes |-> bytes]
    /\ prev' = Cur
    /\ UNCHANGED <<overflow_checks, draw_log, call_log>>

\* 6A07  FA15  A123  1206 (jump to self)
LoadProg == <<106, 7, 250, 21, 161, 35, 18, 6>>

\* A buffer of len bytes: the program, cut or followed by filler bytes (all 8,
\* or a value that depends on the position).
LoadBuffer(len, ramp) ==
    [i \in 1..len |-> IF i <= 8 THEN LoadProg[i]
                      ELSE IF ramp THEN ((7 * i) % 251) + 1 ELSE 8]

LoadLens == {0, 1, 2, 9, MAX_ROM_SIZE_BYTES - 10, MAX_ROM_SIZE_BYTES,
             MAX_ROM_SIZE_BYTES + 1}

LoadRoms == {LoadBuffer(len, ramp) : len \in LoadLens, ramp \in BOOLEAN}

LoadAnyRom == LoadRom(LoadRoms)

ReloadAnyRom == Reload(LoadRoms)

NextLoad == LoadAnyRom \/ Tick \/ ReloadAnyRom

SpecLoad == Init /\ [][NextLoad]_vars

---------------------------------------------------------------------------
(* Claims about load_rom, checked under SpecLoad *)

\* The fields other than memory are what they were before the last operation.
RestKept ==
    /\ registers = prev.registers
    /\ index = prev.index
    /\ program_counter = prev.program_counter
    /\ stack = prev.stack
    /\ stack_pointer = prev.stack_pointer
    /\ delay_timer = prev.delay_timer
    /\ sound_timer = prev.sound_timer
    /\ keys = prev.keys
    /\ buffer = prev.buffer

\* C12: load_rom with a buffer of 1 to 3584 bytes succeeds; afterwards
\* memory[0x200 + i] = buffer[i] for every i < len, every other byte of memory
\* and every other field is what it was before the call; on a fresh interpreter
\* every byte outside the font table and the copied range is 0; a buffer of
\* 3584 bytes reaches exactly address 0xFFF.
C12_LoadCopiesAtProgramStart ==
    (last_op.kind = "load_rom" /\ Len(last_op.bytes) \in 1..3584) =>
        LET len == Len(last_op.bytes)
        IN  /\ phase \in {"running", "reloaded"}
            /\ \A a \in 0..4095 :
                  memory[a] = IF a >= 512 /\ a < 512 + len
                              THEN last_op.bytes[a - 511] ELSE prev.memory[a]
            /\ RestKept
            /\ (prev.memory = Chip8_default.memory =>
                  \A a \in 0..4095 :
                     (a < 80 \/ (a >= 160 /\ a < 512) \/ a >= 512 + len) => memory[a] = 0)
            /\ (len = 3584 => memory[4095] = last_op.bytes[3584])

\* A buffer of 3584 bytes loaded over a shorter program after the interpreter
\* had run: the last byte of memory is the last byte of the buffer.
C12_Witness ==
    /\ last_op.kind = "load_rom"
    /\ Len(last_op.bytes) = 3584
    /\ phase = "reloaded"
    /\ prev.registers[10] = 7
    /\ prev.index = 291
    /\ prev.memory[4095] = 0
    /\ memory[4095] # 0

\* C13: load_rom with a buffer of 0 bytes or of more than 3584 bytes returns an
\* error, is not fatal, and leaves the whole state, memory included, as it was.
C13_LoadRejectsBadLength ==
    (last_op.kind = "load_rom"
        /\ (Len(last_op.bytes) = 0 \/ Len(last_op.bytes) > 3584)) =>
        /\ phase \in {"exited", "load_error"}
        /\ memory = prev.memory
        /\ RestKept

\* A buffer of 3585 bytes refused by an interpreter that had loaded a program
\* and run it.
C13_Witness ==
    /\ last_op.kind = "load_rom"
    /\ Len(last_op.bytes) = 3585
    /\ phase = "load_error"
    /\ memory[512] = 106
    /\ registers[10] = 7
    /\ index = 291

---------------------------------------------------------------------------
(* Programs around the index register, the timers, the random byte and
   opcodes outside the instruction table *)

\* Values loaded into V0 before the instruction that uses the index register.
IndexBytes == {0, 1, 123, 255}

\* Addresses loaded into I: below the program, inside it, at the end of memory.
IndexAddrs == {0, 81, 768, 4093, 4094, 4095}

\* Low bytes of Fx33, Fx55, Fx65, Fx1E, Fx29.
IndexOps == {51, 85, 101, 30, 41}

\* 60<a>  6107  Annn  F1<op>  F1<op>  120A (jump to self)
IndexRom(a, addr, op) ==
    <<96, a, 97, 7, 160 + (addr \div 256), addr % 256, 241, op, 241, op, 18, 10>>

TimerBytes == {0, 1, 3, 255}

\* Number of instructions that only load V0 after the timers are set.
IdleSteps == 4

\* 6A<v>  6B<w>  FA15  FB18  6000 ...  JP self
TimerRom(v, w) ==
    <<106, v, 107, w, 250, 21, 251, 24>>
    \o [i \in 1..(2 * IdleSteps) |-> IF i % 2 = 1 THEN 96 ELSE 0]
    \o <<18, 8 + 2 * IdleSteps>>

\* Opcodes that match no pattern of the match in Chip8::tick: 0000, 0123, 00E1,
\* 00FE, 5011, 8018, 801F, 9011, E0FF, E09F, E1A2, F000, F0FF.
OddOpcodes ==
    { <<0, 0>>, <<1, 35>>, <<0, 225>>, <<0, 254>>, <<80, 17>>, <<128, 24>>,
      <<128, 31>>, <<144, 17>>, <<224, 255>>, <<224, 159>>, <<225, 162>>,
      <<240, 0>>, <<240, 255>> }

\* 6005  A300  <the opcode>  6106
OddRom(op) == <<96, 5, 163, 0>> \o op \o <<97, 6>>

\* 6A07  FA15  Cxkk  1204 (back to the Cxkk)
RandRom(rx, k) == <<106, 7, 250, 21, 192 + rx, k, 18, 4>>

\* One instruction of each of the remaining kinds, then a jump to self:
\* 6003 6103 3003 0000 4004 0000 5010 0000 9020 0000 8100 8121 8122 8123
\* F007 00E0 1220
PlainRom ==
    <<96, 3, 97, 3, 48, 3, 0, 0, 64, 4, 0, 0, 80, 16, 0, 0, 144, 32, 0, 0,
      129, 0, 129, 33, 129, 34, 129, 35, 240, 7, 0, 224, 18, 32>>

CoreRoms ==
    {IndexRom(a, addr, op) : a \in IndexBytes, addr \in IndexAddrs, op \in IndexOps}
    \cup {TimerRom(v, w) : v \in TimerBytes, w \in {0, 2}}
    \cup {OddRom(op) : op \in OddOpcodes}
    \cup {RandRom(rx, k) : rx \in {0, 15}, k \in {0, 15, 165, 255}}
    \cup {PlainRom}

LoadCoreRom == LoadRom(CoreRoms)

NextCore == LoadCoreRom \/ Tick

SpecCore == Init /\ [][NextCore]_vars

---------------------------------------------------------------------------
(* Claims checked under SpecCore *)

\* What construction leaves at address a below 0x200: the font table at
\* 0x050..0x09F, zero elsewhere.
ConstructedByte(a) == IF a >= 80 /\ a < 160 THEN FONT_SET[a - 79] ELSE 0

\* C14: in every reachable state memory[0 .. 0x200) is what construction left
\* there; no instruction, Fx33 and Fx55 with I below 0x200 included, writes
\* an address below 0x200.
C14_LowMemoryNeverWritten ==
    \A a \in 0..511 : memory[a] = ConstructedByte(a)

\* IndexRegister::load on the register as it stands: v stored when v <= 0xFFF,
\* a fatal failure that leaves the register alone when v is larger.
LoadChecksRange ==
    /\ \A v \in {0, 291, 4095} :
          /\ ~IndexRegister_load(Cur, v).panic
          /\ IndexRegister_load(Cur, v).index = v
    /\ \A v \in {4096, 4097, 65535} :
          /\ IndexRegister_load(Cur, v).panic
          /\ IndexRegister_load(Cur, v).index = index

\* C15: in every reachable state the index register is in [0, 0xFFF]; load(v)
\* stores v <= 0xFFF and fails fatally, register unchanged, for v > 0xFFF; no
\* sequence of Annn, Fx29 and Fx1E steps brings the register above 0xFFF.
C15_IndexWithinTwelveBits ==
    /\ LoadChecksRange
    /\ index \in 0..4095

\* The last operation was a step that fetched Fx<lo> (lo given as a byte).
FetchedF(lo) ==
    /\ last_op.kind = "tick"
    /\ last_op.opcode \div 4096 = 15
    /\ last_op.opcode % 256 = lo

\* Every completed step leaves each timer one below the value the instruction
\* gave it or left it with, and leaves 0 at 0.
TimersTickOnce ==
    (last_op.kind = "tick" /\ phase = "running") =>
        /\ delay_timer = OneLess(IF FetchedF(21) THEN prev.registers[LastX]
                                 ELSE prev.delay_timer)
        /\ sound_timer = OneLess(IF FetchedF(24) THEN prev.registers[LastX]
                                 ELSE prev.sound_timer)
        /\ delay_timer \in 0..254
        /\ sound_timer \in 0..254

\* The program loaded is 6A<v> 6B<w> FA15 FB18 followed by loads of V0.
TimerProgram ==
    /\ memory[512] = 106 /\ memory[514] = 107
    /\ memory[516] = 250 /\ memory[517] = 21
    /\ memory[518] = 251 /\ memory[519] = 24

\* v less k, not below 0.
Less(v, k) == IF v > k THEN v - k ELSE 0

\* In the timer program the delay timer was given v by the step that ended at
\* 0x206 and the sound timer w by the step that ended at 0x208; k steps
\* further each holds its value less k, so 0 from step v on, each timer by
\* its own count.
TimersRunDown ==
    (TimerProgram /\ last_op.kind = "tick" /\ last_op.opcode \div 4096 # 1
                  /\ phase = "running") =>
        /\ program_counter >= 518 =>
              delay_timer = Less(OneLess(memory[513]), (program_counter - 518) \div 2)
        /\ program_counter >= 520 =>
              sound_timer = Less(OneLess(memory[515]), (program_counter - 520) \div 2)

\* C16: every completed step decrements the delay timer and the sound timer
\* once each, after the instruction's own effect; a timer at 0 stays 0 and
\* never wraps to 255; the timers are independent; a timer holding v that is
\* not set again reads 0 after v further steps and stays 0.
C16_TimersTickOncePerStep ==
    /\ TimersTickOnce
    /\ TimersRunDown

\* The delay timer, set to 1, has been at 0 for a step while the sound timer,
\* set to 2 one step later, has just reached 0.
C16_Witness ==
    /\ TimerProgram
    /\ memory[513] = 1 /\ memory[515] = 2
    /\ last_op.kind = "tick"
    /\ program_counter = 522
    /\ prev.delay_timer = 0 /\ delay_timer = 0
    /\ prev.sound_timer = 1 /\ sound_timer = 0

\* The opcode matches a pattern of the instruction table: 00E0, 00EE, 1nnn,
\* 2nnn, 3xkk, 4xkk, 5xy0, 6xkk, 7xkk, 8xy0..8xy7, 8xyE, 9xy0, Annn, Bnnn, Cxkk,
\* Dxyn, Ex9E, ExA1, Fx07, Fx0A, Fx15, Fx18, Fx1E, Fx29, Fx33, Fx55, Fx65.
InTable(op) ==
    LET n1 == op \div 4096
        n4 == op % 16
        lo == op % 256
    IN  \/ op \in {224, 238}
        \/ n1 \in {1, 2, 3, 4, 6, 7, 10, 11, 12, 13}
        \/ n1 \in {5, 9} /\ n4 = 0
        \/ n1 = 8 /\ n4 \in (0..7) \cup {14}
        \/ n1 = 14 /\ lo \in {158, 161}
        \/ n1 = 15 /\ lo \in {7, 10, 21, 24, 30, 41, 51, 85, 101}

\* Instructions of the table whose handler has no failing case: 00E0, 1nnn,
\* 3xkk, 4xkk, 5xy0, 6xkk, 8xy0..8xy3, 9xy0, Annn, Cxkk, Fx07, Fx0A, Fx15, Fx18.
Unfailing(op) ==
    LET n1 == op \div 4096
        n4 == op % 16
        lo == op % 256
    IN  /\ InTable(op)
        /\ \/ op = 224
           \/ n1 \in {1, 3, 4, 5, 6, 9, 10, 12}
           \/ n1 = 8 /\ n4 \in 0..3
           \/ n1 = 15 /\ lo \in {7, 10, 21, 24}

\* C17: every opcode that matches a pattern of the instruction table is
\* recognised by the step and executed by its handler: the instructions that
\* cannot fail complete, a step that fetches Fx55 stores V0..Vx at
\* memory[I .. I + x], and a step that fetches Fx65 loads V0..Vx from there.
C17_TableOpcodesRecognised ==
    /\ (last_op.kind = "tick" /\ Unfailing(last_op.opcode)) => phase = "running"
    /\ (FetchedF(85) /\ prev.index + LastX <= 4095) =>
          /\ phase = "running"
          /\ \A i \in 0..LastX : memory[prev.index + i] = prev.registers[i]
          /\ registers = prev.registers
    /\ (FetchedF(101) /\ prev.index + LastX <= 4095) =>
          /\ phase = "running"
          /\ \A i \in 0..LastX : registers[i] = prev.memory[prev.index + i]
          /\ memory = prev.memory

\* The part of C17 that holds: the instructions that cannot fail complete.
UnfailingComplete ==
    (last_op.kind = "tick" /\ Unfailing(last_op.opcode)) => phase = "running"

\* C18: a step that fetches an opcode matching no pattern of the instruction
\* table fails fatally: nothing but the fetch has happened (pc is past the
\* opcode, no register, memory byte or timer has changed) and the interpreter
\* takes no further step.
C18_UnknownOpcodeFatal ==
    (last_op.kind = "tick" /\ ~InTable(last_op.opcode)) =>
        /\ phase = "panicked"
        /\ ~ENABLED Tick
        /\ program_counter = prev.program_counter + 2
        /\ registers = prev.registers
        /\ memory = prev.memory
        /\ index = prev.index
        /\ stack = prev.stack
        /\ stack_pointer = prev.stack_pointer
        /\ delay_timer = prev.delay_timer
        /\ sound_timer = prev.sound_timer
        /\ buffer = prev.buffer

\* The step fetched 8018 after two instructions had run.
C18_Witness ==
    /\ last_op.kind = "tick"
    /\ last_op.opcode = 32792
    /\ phase = "panicked"
    /\ registers[0] = 5
    /\ index = 768
    /\ program_counter = 518

\* Bit i of v.
Bit(v, i) == (v \div (2 ^ i)) % 2

\* The byte whose bit i is set when bit i is set in both a and b.
BothBits(a, b) ==
    Bit(a, 0) * Bit(b, 0) + 2 * Bit(a, 1) * Bit(b, 1) + 4 * Bit(a, 2) * Bit(b, 2)
    + 8 * Bit(a, 3) * Bit(b, 3) + 16 * Bit(a, 4) * Bit(b, 4)
    + 32 * Bit(a, 5) * Bit(b, 5) + 64 * Bit(a, 6) * Bit(b, 6)
    + 128 * Bit(a, 7) * Bit(b, 7)

\* The interpreter as the last step left it, failure included.
Outcome == [Cur EXCEPT !.panic = (phase = "panicked")]

---------------------------------------------------------------------------
(* The opcode decoder applied to pairs of bytes *)

NibbleSamples == {0, 1, 7, 8, 14, 15}

\* Low bytes made of two of the nibbles above; the high byte takes every value.
DecodeBytes == {16 * a + b : a \in NibbleSamples, b \in NibbleSamples}

\* A fresh interpreter and two bytes (hi, lo) to decode.
InitDecode ==
    /\ registers = Chip8_default.registers
    /\ memory = Chip8_default.memory
    /\ index = Chip8_default.index
    /\ program_counter = Chip8_default.program_counter
    /\ stack = Chip8_default.stack
    /\ stack_pointer = Chip8_default.stack_pointer
    /\ delay_timer = Chip8_default.delay_timer
    /\ sound_timer = Chip8_default.sound_timer
    /\ keys = Chip8_default.keys
    /\ buffer = Chip8_default.buffer
    /\ overflow_checks \in BOOLEAN
    /\ phase = "decode"
    /\ prev = Chip8_default
    /\ \E hi \in 0..255, lo \in DecodeBytes :
          last_op = [kind |-> "bytes", opcode |-> 0, rand_byte |-> 0,
                     bytes |-> <<hi, lo>>]
    /\ draw_log = <<>>
    /\ call_log = <<>>

\* OpCode::from((hi, lo))
Decode ==
    /\ phase = "decode"
    /\ last_op.kind = "bytes"
    /\ last_op' = [last_op EXCEPT
                     !.kind = "decode",
                     !.opcode = OpCode_from(last_op.bytes[1], last_op.bytes[2])]
    /\ UNCHANGED <<registers, memory, index, program_counter, stack, stack_pointer,
                   delay_timer, sound_timer, keys, buffer, overflow_checks, phase,
                   prev, draw_log, call_log>>

NextDecode == Decode

SpecDecode == InitDecode /\ [][NextDecode]_vars

\* C20: the opcode built from (hi, lo) has value hi * 256 + lo; its nibbles
\* recompose to that value; x, y, n are the second, third and fourth nibble;
\* kk = lo = n3 * 16 + n4; nnn = n2 * 256 + kk.  Decoding has no failing input.
C20_DecodeRoundTrip ==
    last_op.kind = "decode" =>
        LET hi == last_op.bytes[1]
            lo == last_op.bytes[2]
            op == last_op.opcode
            nb == nibbles(op)
        IN  /\ op = hi * 256 + lo
            /\ \A i \in 1..4 : nb[i] \in 0..15
            /\ nb[1] * 4096 + nb[2] * 256 + nb[3] * 16 + nb[4] = op
            /\ x(op) = nb[2]
            /\ y(op) = nb[3]
            /\ n(op) = nb[4]
            /\ kk(op) = lo
            /\ kk(op) = nb[3] * 16 + nb[4]
            /\ nnn(op) = nb[2] * 256 + kk(op)
            /\ nb[1] = hi \div 16 /\ nb[2] = hi % 16
            /\ nb[3] = lo \div 16 /\ nb[4] = lo % 16

\* (0x8F, 0xE7) decoded: 8FE7, nibbles 8 F E 7, nnn = FE7, kk = E7.
C20_Witness ==
    /\ last_op.kind = "decode"
    /\ last_op.bytes = <<143, 231>>
    /\ last_op.opcode = 36839
    /\ nibbles(last_op.opcode) = <<8, 15, 14, 7>>
    /\ nnn(last_op.opcode) = 4071
    /\ kk(last_op.opcode) = 231

---------------------------------------------------------------------------
(* chip8.rs, mod tests: a handler called directly on an arranged interpreter *)

MaxHandlerCalls == 3

\* The register contents a test arranges with c.registers[i] = ... .
RegisterFiles ==
    { [i \in 0..15 |-> 16 * i + 1], [i \in 0..15 |-> 250 - 3 * i] }

\* The addresses a test arranges with c.index.load(...).
ArrangedIndex == {768, 4093, 4094}

\* The set-up lines of a test: registers assigned, the index register loaded.
Arrange ==
    /\ phase = "constructed"
    /\ \E file \in RegisterFiles, addr \in ArrangedIndex :
          LET c == IndexRegister_load([Cur EXCEPT !.registers = file], addr)
          IN  /\ Commit(c)
              /\ phase' = "arranged"
              /\ last_op' = [kind |-> "arrange", opcode |-> 0, rand_byte |-> 0,
                             bytes |-> <<>>]
    /\ prev' = Cur
    /\ UNCHANGED <<overflow_checks, draw_log, call_log>>

\* c.op_...(opcode): the handler of that name.
call_handler(c, name, opcode) ==
    CASE name = "op_Fx55" -> op_Fx55(c, opcode)
      [] name = "op_Fx65" -> op_Fx65(c, opcode)
      [] name = "op_6xkk" -> op_6xkk(c, opcode)

\* The calls made: LD [I], Vx and LD Vx, [I] for x = 2, 15, and LD V1, 0xEE.
HandlerCalls ==
    { <<"op_Fx55", 62037>>, <<"op_Fx55", 65365>>,
      <<"op_Fx65", 62053>>, <<"op_Fx65", 65381>>,
      <<"op_6xkk", 25070>> }

\* One direct call of a handler, as the tests make them.  A panic ends the test.
CallHandler ==
    /\ phase = "arranged"
    /\ Len(call_log) < MaxHandlerCalls
    /\ \E call \in HandlerCalls :
          LET r == call_handler(Cur, call[1], call[2])
          IN  /\ Commit(r)
              /\ phase' = IF r.panic THEN "panicked" ELSE "arranged"
              /\ last_op' = [kind |-> call[1], opcode |-> call[2], rand_byte |-> 0,
                             bytes |-> <<>>]
              /\ call_log' = Append(call_log,
                                [name |-> call[1], opcode |-> call[2],
                                 registers |-> registers, index |-> index,
                                 panic |-> r.panic])
    /\ prev' = Cur
    /\ UNCHANGED <<overflow_checks, draw_log>>

NextHandlers == Arrange \/ CallHandler

SpecHandlers == Init /\ [][NextHandlers]_vars

\* The fields a handler may change, as one record.
Machine(c) ==
    [registers |-> c.registers, memory |-> c.memory, index |-> c.index,
     stack |-> c.stack, stack_pointer |-> c.stack_pointer, buffer |-> c.buffer]

\* C21 (as claimed): when a step fails on an invariant violation, the registers,
\* memory, index register, stack, stack pointer and frame buffer hold the values
\* they had before the step; LD [I], Vx with I + x >= 4096 writes no memory byte.
C21_FailedStepChangesNothing ==
    (phase = "panicked" /\ last_op.kind \in {"op_Fx55", "op_Fx65", "tick", "draw"})
        => Machine(Cur) = Machine(prev)

\* The registers right after call number k of call_log.
RegistersAfter(k) ==
    IF k < Len(call_log) THEN call_log[k + 1].registers ELSE registers

\* Every field but the registers and the memory is as before the last call.
RestAsBefore ==
    /\ index = prev.index
    /\ program_counter = prev.program_counter
    /\ stack = prev.stack
    /\ stack_pointer = prev.stack_pointer
    /\ delay_timer = prev.delay_timer
    /\ sound_timer = prev.sound_timer
    /\ keys = prev.keys
    /\ buffer = prev.buffer

\* C27: for I + x < 4096 the Fx55 handler sets memory[I + i] = Vi for i in 0..x
\* and the Fx65 handler sets Vi = memory[I + i] for i in 0..x; neither changes I
\* or anything else; Fx55, the registers overwritten, then Fx65 with the same x
\* and I brings registers 0..x back to their values at the Fx55.
C27_BlockTransfer ==
    /\ LET first == prev.index
           last == prev.index + x(last_op.opcode)
           old == prev.memory
       IN  /\ (last_op.kind = "op_Fx55" /\ last < MEMORY_SIZE_BYTES) =>
                 /\ phase # "panicked"
                 /\ \A a \in first..last : memory[a] = prev.registers[a - first]
                 /\ \A a \in 0..(MEMORY_SIZE_BYTES - 1) :
                       (a < first \/ a > last) => memory[a] = old[a]
                 /\ registers = prev.registers
                 /\ RestAsBefore
           /\ (last_op.kind = "op_Fx65" /\ last < MEMORY_SIZE_BYTES) =>
                 /\ phase # "panicked"
                 /\ \A i \in 0..15 :
                       registers[i] = IF first + i <= last THEN old[first + i]
                                      ELSE prev.registers[i]
                 /\ memory = old
                 /\ RestAsBefore
    /\ \A j \in 1..Len(call_log), k \in 1..Len(call_log) :
          (/\ j < k
           /\ call_log[j].name = "op_Fx55" /\ ~call_log[j].panic
           /\ call_log[k].name = "op_Fx65" /\ ~call_log[k].panic
           /\ x(call_log[j].opcode) = x(call_log[k].opcode)
           /\ call_log[j].index = call_log[k].index
           /\ \A m \in (j + 1)..(k - 1) : call_log[m].name # "op_Fx55")
          => \A i \in 0..x(call_log[j].opcode) :
                RegistersAfter(k)[i] = call_log[j].registers[i]

\* V0..V2 stored at 0xFFD..0xFFF, V1 overwritten with 0xEE, V0..V2 loaded back.
C27_Witness ==
    /\ Len(call_log) = 3
    /\ call_log[1].opcode = 62037 /\ call_log[2].opcode = 25070
    /\ call_log[3].opcode = 62053
    /\ index = 4093
    /\ call_log[3].registers[1] = 238
    /\ registers = call_log[1].registers
    /\ registers[1] = 17
    /\ memory[4093] = 1 /\ memory[4094] = 17 /\ memory[4095] = 33
    /\ phase = "arranged"

---------------------------------------------------------------------------
(* Programs that run to the end of memory, and the conditional skips *)

\* A ROM of the largest size: JP target, zeros, and four bytes of code at
\* 0xFFC..0xFFF.
FetchRom(target, tail) ==
    <<16 + (target \div 256), target % 256>>
        \o [i \in 1..(MAX_ROM_SIZE_BYTES - 6) |-> 0] \o tail

\* LD V0, 5; LD V1, 6.   SE V0, 0; LD V0, 5.   LD V0, 5; SE V0, 5.
\* LD V0, 5; JP 0x200.   An LD V0, 5 at the odd address 0xFFD.
FetchTails ==
    { <<96, 5, 97, 6>>, <<48, 0, 96, 5>>, <<96, 5, 48, 5>>, <<96, 5, 18, 0>>,
      <<0, 96, 5, 0>> }

FetchRoms ==
    {FetchRom(target, tail) : target \in {4092, 4093, 4094, 4095}, tail \in FetchTails}
    \cup {<<31, 255>>, <<31, 254>>, <<96, 1, 31, 255>>}

\* LD V0, a; LD V1, b; the skip instruction; JP 0x206 at 0x206; JP 0x208 at 0x208.
SkipRom(a, b, op) == <<96, a, 97, b>> \o op \o <<18, 6, 18, 8>>

\* SE V0, 3;  SNE V0, 3;  SE V0, V1;  SNE V0, V1;  SE V1, 0xFF;  SNE V1, 0.
SkipOps == { <<48, 3>>, <<64, 3>>, <<80, 16>>, <<144, 16>>, <<49, 255>>, <<65, 0>> }

SkipRoms == {SkipRom(a, b, op) : a \in {0, 3, 255}, b \in {0, 3, 255}, op \in SkipOps}

FlowRoms == FetchRoms \cup SkipRoms

LoadFetchRom == LoadRom(FlowRoms)

NextFetch == LoadFetchRom \/ Tick

SpecFetch == Init /\ [][NextFetch]_vars

\* C22: a step whose program counter is 4095 or more fails in the fetch, with
\* no field changed; otherwise the opcode is memory[pc] * 256 + memory[pc + 1]
\* and the handler runs on the state whose program counter is already pc + 2.
\* The memory never has an address past 4095.
C22_FetchChecked ==
    /\ DOMAIN memory = 0..(MEMORY_SIZE_BYTES - 1)
    /\ last_op.kind = "fetch_panic" =>
          /\ prev.program_counter >= MEMORY_SIZE_BYTES - 1
          /\ phase = "panicked"
          /\ Cur = prev
    /\ last_op.kind = "tick" =>
          LET pc == prev.program_counter
              seen == [prev EXCEPT !.program_counter = pc + 2]
              d == dispatch(seen, last_op.opcode, last_op.rand_byte)
          IN  /\ pc + 1 < MEMORY_SIZE_BYTES
              /\ last_op.opcode = prev.memory[pc] * 256 + prev.memory[pc + 1]
              /\ IF d.panic THEN phase = "panicked"
                 ELSE Cur = [d EXCEPT !.delay_timer = Timer_tick(@),
                                      !.sound_timer = Timer_tick(@)]
              /\ last_op.opcode \div 4096 = 6 => program_counter = pc + 2
              /\ last_op.opcode \div 4096 = 1 => program_counter = nnn(last_op.opcode)

\* LD V0, 5 fetched at 0xFFD left the program counter at 4095; the next step
\* failed in the fetch and changed nothing.
C22_Witness ==
    /\ last_op.kind = "fetch_panic"
    /\ phase = "panicked"
    /\ prev.program_counter = 4095
    /\ program_counter = 4095
    /\ registers[0] = 5
    /\ memory[4093] = 96

\* The condition under which the skip instruction last fetched skips, on the
\* registers before the step; FALSE for any other instruction.
SkipCondition ==
    LET vx == prev.registers[LastX]
        vy == prev.registers[LastY]
    IN  \/ FetchedFirst(3) /\ vx = last_op.opcode % 256
        \/ FetchedFirst(4) /\ vx # last_op.opcode % 256
        \/ Fetched(5, 0) /\ vx = vy
        \/ Fetched(9, 0) /\ vx # vy

\* C28: 3xkk, 4xkk, 5xy0 and 9xy0 leave the program counter 2 past the fetched
\* instruction, and 2 more exactly when their condition holds (Vx = kk, Vx # kk,
\* Vx = Vy, Vx # Vy); they change no register, memory byte, stack slot or pixel;
\* on the same registers exactly one of 3xkk and 4xkk skips, and exactly one of
\* 5xy0 and 9xy0.
C28_SkipExactlyWhenConditionHolds ==
    (FetchedFirst(3) \/ FetchedFirst(4) \/ Fetched(5, 0) \/ Fetched(9, 0)) =>
        LET seen == [prev EXCEPT !.program_counter = prev.program_counter + 2]
            skips(c) == c.program_counter = seen.program_counter + 2
            stays(c) == c.program_counter = seen.program_counter
        IN  /\ phase = "running"
            /\ program_counter =
                  prev.program_counter + 2 + (IF SkipCondition THEN 2 ELSE 0)
            /\ registers = prev.registers
            /\ memory = prev.memory
            /\ index = prev.index
            /\ stack = prev.stack
            /\ stack_pointer = prev.stack_pointer
            /\ keys = prev.keys
            /\ buffer = prev.buffer
            /\ delay_timer = Timer_tick(prev.delay_timer)
            /\ sound_timer = Timer_tick(prev.sound_timer)
            /\ skips(op_3xkk(seen, last_op.opcode)) # skips(op_4xkk(seen, last_op.opcode))
            /\ stays(op_3xkk(seen, last_op.opcode)) # stays(op_4xkk(seen, last_op.opcode))
            /\ skips(op_5xy0(seen, last_op.opcode)) # skips(op_9xy0(seen, last_op.opcode))
            /\ stays(op_5xy0(seen, last_op.opcode)) # stays(op_9xy0(seen, last_op.opcode))

\* SNE V0, V1 at 0x204 with V0 = 3 and V1 = 255: the step went on at 0x208.
C28_Witness ==
    /\ FetchedOpcode(36880)
    /\ prev.program_counter = 516
    /\ registers[0] = 3 /\ registers[1] = 255
    /\ program_counter = 520
    /\ phase = "running"

---------------------------------------------------------------------------
(* Programs that skip on a key, with the key state changing between steps *)

\* LD Vx, a; SKP Vx or SKNP Vx; JP 0x204 at 0x204; JP 0x206 at 0x206.
KeySkipRom(rx, a, lo) == <<96 + rx, a, 224 + rx, lo, 18, 4, 18, 6>>

\* Vx: keys 0, 2, 9 and 15, and the values 16 and 255 that name no key.
KeySkipRoms ==
    {KeySkipRom(rx, a, lo) :
        rx \in {0, 15}, a \in {0, 2, 9, 15, 16, 255}, lo \in {158, 161}}

LoadKeySkipRom == LoadRom(KeySkipRoms)

NextKeySkip == LoadKeySkipRom \/ SetKeys \/ Tick

SpecKeySkip == Init /\ [][NextKeySkip]_vars

\* The last operation was a step that fetched Ex<lo> (lo given as a byte).
FetchedE(lo) ==
    /\ last_op.kind = "tick"
    /\ last_op.opcode \div 4096 = 14
    /\ last_op.opcode % 256 = lo

\* Nothing but the program counter differs from the state before the step.
OnlyProgramCounterMoved ==
    /\ registers = prev.registers
    /\ memory = prev.memory
    /\ index = prev.index
    /\ stack = prev.stack
    /\ stack_pointer = prev.stack_pointer
    /\ delay_timer = Timer_tick(prev.delay_timer)
    /\ sound_timer = Timer_tick(prev.sound_timer)
    /\ keys = prev.keys
    /\ buffer = prev.buffer

\* C23: with Vx < 16, Ex9E skips the next instruction exactly when key Vx is
\* down and ExA1 exactly when it is not; with Vx >= 16 either instruction is
\* fatal.
C23_KeySkips ==
    (FetchedE(158) \/ FetchedE(161)) =>
        LET key == prev.registers[LastX]
            wanted == IF FetchedE(158) THEN KeyDown(prev.keys, key)
                      ELSE ~KeyDown(prev.keys, key)
        IN  IF key >= 16 THEN phase = "panicked"
            ELSE /\ phase = "running"
                 /\ program_counter =
                       prev.program_counter + 2 + (IF wanted THEN 2 ELSE 0)
                 /\ OnlyProgramCounterMoved

\* SKP VF with VF = 9 while keys 2 and 9 were down: the step went on at 0x206.
C23_Witness ==
    /\ FetchedOpcode(61342)
    /\ prev.registers[15] = 9
    /\ prev.keys = 516
    /\ prev.program_counter = 514
    /\ program_counter = 518
    /\ phase = "running"

\* The pixels under the set bits of a sprite drawn at coords, column and row
\* taken separately: those with pos_x + col < 64 and pos_y + r < 32.
PixelsOnScreen(sprite, coords) ==
    { (coords.pos_y + r) * WIDTH_PIXELS + (coords.pos_x + col) :
        <<r, col>> \in { rc \in (0..(Len(sprite) - 1)) \X (0..7) :
                            /\ SpriteBit(sprite[rc[1] + 1], rc[2])
                            /\ coords.pos_x + rc[2] < WIDTH_PIXELS
                            /\ coords.pos_y + rc[1] < HEIGHT_PIXELS } }

\* C24 (as claimed): a draw changes only the pixels (pos_x + c, pos_y + r) of its
\* set bits; a bit with pos_x + c >= 64 or pos_y + r >= 32 changes no pixel, in
\* particular not the pixel in column pos_x + c - 64 of the next row.
C24_DrawDoesNotWrap ==
    \A i \in 1..Len(draw_log) :
        LET e == draw_log[i]
            on == PixelsOnScreen(e.sprite, e.coords)
            left == After(i)
        IN  \A px \in DOMAIN e.before : left[px] # e.before[px] => px \in on

\* Nothing has been done to the interpreter since Chip8::default().
FreshlyConstructed ==
    phase = "constructed" /\ last_op = NoOp /\ draw_log = <<>> /\ call_log = <<>>

\* C25: a freshly constructed interpreter has program counter 0x200, stack
\* pointer 0, all registers, the index register, both timers, all stack slots,
\* all keys and all 2048 pixels at 0, and memory all zero except the 80-byte
\* glyph table at 0x050..0x09F, glyph d at 0x050 + 5 * d.
C25_FreshState ==
    FreshlyConstructed =>
        /\ program_counter = 512
        /\ stack_pointer = 0
        /\ DOMAIN registers = 0..15 /\ \A i \in 0..15 : registers[i] = 0
        /\ index = 0
        /\ delay_timer = 0 /\ sound_timer = 0
        /\ DOMAIN stack = 0..15 /\ \A i \in 0..15 : stack[i] = 0
        /\ keys = 0 /\ \A k \in 0..15 : ~KeyDown(keys, k)
        /\ DOMAIN buffer = 0..2047 /\ \A px \in 0..2047 : buffer[px] = 0
        /\ DOMAIN memory = 0..4095
        /\ \A a \in 0..4095 : (a < 80 \/ a > 159) => memory[a] = 0
        /\ Len(FONT_SET) = 80
        /\ \A d \in 0..15 : \A j \in 0..4 :
              memory[80 + 5 * d + j] = FONT_SET[5 * d + j + 1]

\* Right after construction: the first row of glyph 0 at 0x050, the last row of
\* glyph F at 0x09F, nothing at 0x0A0 or 0x200.
C25_Witness ==
    /\ FreshlyConstructed
    /\ memory[80] = 240 /\ memory[159] = 128
    /\ memory[79] = 0 /\ memory[160] = 0 /\ memory[512] = 0
    /\ program_counter = 512

\* C26: a CALL at address A pushes A + 2, adds 1 to the stack pointer and jumps
\* to nnn; a RET with a return address on the stack takes the most recent one,
\* subtracts 1 from the stack pointer and leaves the slots as they are.  Nested
\* calls return in reverse order: in these programs the CALL made at stack
\* depth s is the one at 0x200 + 4s, and the RET that brings the depth back to
\* s goes on at 0x200 + 4s + 2.
C26_CallRetLifo ==
    /\ (FetchedFirst(2) /\ prev.stack_pointer < 16) =>
          /\ phase = "running"
          /\ stack_pointer = prev.stack_pointer + 1
          /\ stack[stack_pointer - 1] = prev.program_counter + 2
          /\ \A i \in 0..15 : i # prev.stack_pointer => stack[i] = prev.stack[i]
          /\ program_counter = nnn(last_op.opcode)
          /\ prev.program_counter = PROG_CTR_START_ADDR + 4 * prev.stack_pointer
    /\ (FetchedOpcode(238) /\ prev.stack_pointer \in 1..16) =>
          /\ phase = "running"
          /\ stack_pointer = prev.stack_pointer - 1
          /\ program_counter = prev.stack[prev.stack_pointer - 1]
          /\ stack = prev.stack
          /\ program_counter = PROG_CTR_START_ADDR + 4 * stack_pointer + 2

\* Sixteen nested calls have all returned: the last RET took the address pushed
\* by the first CALL, the slots still hold the sixteen return addresses.
C26_Witness ==
    /\ FetchedOpcode(238)
    /\ phase = "running"
    /\ prev.stack_pointer = 1
    /\ stack_pointer = 0
    /\ program_counter = 514
    /\ stack[0] = 514 /\ stack[15] = 574

---------------------------------------------------------------------------
(* Programs that store the decimal digits of a register or point at a glyph *)

\* LD Vx, v; LD I, addr; LD B, Vx; JP 0x206 (jump to self)
BcdRom(rx, v, addr) ==
    <<96 + rx, v, 160 + (addr \div 256), addr % 256, 240 + rx, 51, 18, 6>>

\* LD Vx, v; LD F, Vx; JP 0x204 (jump to self)
FontRom(rx, v) == <<96 + rx, v, 240 + rx, 41, 18, 4>>

DigitBytes == {0, 7, 9, 10, 15, 16, 99, 100, 234, 255}

\* Every byte value in V0 with I = 0x300, and chosen values in V0 and VF with I
\* at both ends of the memory.
DigitRoms ==
    {BcdRom(0, v, 768) : v \in 0..255}
    \cup {BcdRom(rx, v, addr) : rx \in {0, 15}, v \in DigitBytes,
                                addr \in {0, 80, 4093, 4094, 4095}}
    \cup {FontRom(0, v) : v \in 0..255}
    \cup {FontRom(15, v) : v \in DigitBytes}

LoadDigitRom == LoadRom(DigitRoms)

NextDigits == LoadDigitRom \/ Tick

SpecDigits == Init /\ [][NextDigits]_vars

\* C29: Fx33 with Vx = v and I + 2 < 4096 writes the hundreds, tens and ones
\* digit of v at memory[I], memory[I + 1], memory[I + 2], each in 0..9 and
\* recomposing to v, and changes no other byte, no register and not I; with
\* I + 2 >= 4096 the step is fatal.
C29_BcdDigits ==
    FetchedF(51) =>
        LET v == prev.registers[LastX]
            first == prev.index
            old == prev.memory
        IN  IF first + 2 < MEMORY_SIZE_BYTES
            THEN /\ phase = "running"
                 /\ memory[first] = v \div 100
                 /\ memory[first + 1] = (v \div 10) % 10
                 /\ memory[first + 2] = v % 10
                 /\ \A a \in first..(first + 2) : memory[a] \in 0..9
                 /\ 100 * memory[first] + 10 * memory[first + 1] + memory[first + 2] = v
                 /\ \A a \in 0..(MEMORY_SIZE_BYTES - 1) :
                       (a < first \/ a > first + 2) => memory[a] = old[a]
                 /\ registers = prev.registers
                 /\ index = first
                 /\ program_counter = prev.program_counter + 2
                 /\ stack = prev.stack /\ stack_pointer = prev.stack_pointer
                 /\ buffer = prev.buffer /\ keys = prev.keys
            ELSE phase = "panicked"

\* 234 in VF stored as 2, 3, 4 in the last three bytes of the memory.
C29_Witness ==
    /\ FetchedOpcode(65331)
    /\ prev.registers[15] = 234
    /\ prev.index = 4093
    /\ memory[4093] = 2 /\ memory[4094] = 3 /\ memory[4095] = 4
    /\ phase = "running"

\* C30: Fx29 sets I = 0x050 + 5 * Vx and changes nothing else.  For Vx in 0..15
\* the five bytes I..I + 4 lie inside 0x050..0x09F; for every Vx the result is
\* at most 0x54B, within 0..0xFFF, and the step completes.
C30_GlyphAddress ==
    FetchedF(41) =>
        LET v == prev.registers[LastX]
        IN  /\ phase = "running"
            /\ index = 80 + 5 * v
            /\ index <= 1355 /\ index \in 0..U12_MAX
            /\ v <= 15 => (index >= 80 /\ index + 4 <= 159)
            /\ registers = prev.registers
            /\ memory = prev.memory
            /\ program_counter = prev.program_counter + 2
            /\ stack = prev.stack /\ stack_pointer = prev.stack_pointer
            /\ buffer = prev.buffer /\ keys = prev.keys

\* VF = 255: I = 0x54B.
C30_Witness ==
    /\ FetchedOpcode(65321)
    /\ prev.registers[15] = 255
    /\ index = 1355
    /\ phase = "running"

\* C31 (as claimed): executing Bnnn completes and sets pc = V0 + (nnn mod 256),
\* also when that sum exceeds 255; V0 = 1 and opcode B111 give pc = 0x12.
C31_JumpV0LowByte ==
    FetchedFirst(11) =>
        /\ phase = "running"
        /\ program_counter = prev.registers[0] + (last_op.opcode % 256)

\* The part of C31 that the test jump_v0_plus_addr covers: with a sum of at
\* most 255 the step completes and pc is V0 plus the low byte of nnn.
JumpV0LowByteInRange ==
    (FetchedFirst(11) /\ prev.registers[0] + (last_op.opcode % 256) <= 255) =>
        /\ phase = "running"
        /\ program_counter = prev.registers[0] + (last_op.opcode % 256)

---------------------------------------------------------------------------
(* Programs that set a timer and read the delay timer back *)

\* LD Vx, v; LD DT, Vx; LD Vy, DT; LD ST, Vx; LD Vy, DT; JP 0x20A (jump to self)
TimerReadRom(rx, ry, v) ==
    <<96 + rx, v, 240 + rx, 21, 240 + ry, 7, 240 + rx, 24, 240 + ry, 7, 18, 10>>

TimerReadRoms ==
    {TimerReadRom(rx, ry, v) :
        rx \in {0, 5, 15}, ry \in {0, 1, 15}, v \in {0, 1, 2, 3, 127, 128, 254, 255}}

LoadTimerReadRom == LoadRom(TimerReadRoms)

NextTimerRead == LoadTimerReadRom \/ Tick

SpecTimerRead == Init /\ [][NextTimerRead]_vars

\* C32: the step that executes Fx15 with Vx = v leaves the delay timer at
\* max(v - 1, 0), the step that executes Fx18 leaves the sound timer there; the
\* step that executes Fx07 loads Vx with the delay timer as it was before the
\* step and ticks it afterwards; Fx07 right after Fx15 with Vx = v reads
\* max(v - 1, 0).
C32_TimerSetThenTick ==
    /\ FetchedF(21) =>
          /\ phase = "running"
          /\ delay_timer = OneLess(prev.registers[LastX])
          /\ sound_timer = OneLess(prev.sound_timer)
          /\ registers = prev.registers
    /\ FetchedF(24) =>
          /\ phase = "running"
          /\ sound_timer = OneLess(prev.registers[LastX])
          /\ delay_timer = OneLess(prev.delay_timer)
          /\ registers = prev.registers
    /\ FetchedF(7) =>
          /\ phase = "running"
          /\ registers = [prev.registers EXCEPT ![LastX] = prev.delay_timer]
          /\ delay_timer = OneLess(prev.delay_timer)
          /\ prev.program_counter = 516 =>
                registers[LastX] = OneLess(prev.memory[513])

\* LD DT, VF with VF = 255, then LD VF, DT: VF reads 254 and the timer is at 253.
C32_Witness ==
    /\ FetchedOpcode(65287)
    /\ prev.program_counter = 516
    /\ memory[512] = 111 /\ memory[513] = 255
    /\ registers[15] = 254
    /\ delay_timer = 253
    /\ phase = "running"

---------------------------------------------------------------------------
(* Programs that draw, clear the screen and draw again *)

\* LD I, 0x20E; DRW; CLS; DRW; DRW at the next column; DRW; JP 0x20C (jump to
\* self); the sprite at 0x20E.
PixelRom(rx, ry, sprite) ==
    <<162, 14, 208 + rx, 16 * ry + Len(sprite), 0, 224,
      208 + rx, 16 * ry + Len(sprite),
      208 + ((rx + 1) % 16), 16 * ry + Len(sprite),
      208 + rx, 16 * ry + Len(sprite), 18, 12>> \o sprite

PixelRoms ==
    {PixelRom(rx, ry, sprite) : rx \in {0, 3, 15}, ry \in {0, 9, 15},
                                sprite \in { <<255>>, <<129, 66, 36>>,
                                              <<240, 144, 144, 144, 240>> }}

LoadPixelRom == LoadRom(PixelRoms)

NextPixels == LoadPixelRom \/ Tick

SpecPixels == Init /\ [][NextPixels]_vars

\* C33: every byte of the 64 * 32 frame buffer is 0 or 0xFF in every state; CLS
\* leaves all at 0, and a draw leaves each byte as it was or flipped between the
\* two values.
C33_PixelsOffOrOn ==
    /\ DOMAIN buffer = 0..(WIDTH_PIXELS * HEIGHT_PIXELS - 1)
    /\ \A px \in DOMAIN buffer : buffer[px] \in {0, 255}
    /\ FetchedOpcode(224) => \A px \in DOMAIN buffer : buffer[px] = 0
    /\ FetchedFirst(13) =>
          \A px \in DOMAIN buffer :
              buffer[px] = prev.buffer[px] \/ buffer[px] = 255 - prev.buffer[px]

\* The third draw since the CLS put the sprite over its own shifted copy: some
\* pixels went back to 0, some are at 0xFF.
C33_Witness ==
    /\ FetchedFirst(13)
    /\ prev.program_counter = 522
    /\ \E px \in DOMAIN buffer : prev.buffer[px] = 255 /\ buffer[px] = 0
    /\ \E px \in DOMAIN buffer : prev.buffer[px] = 255 /\ buffer[px] = 255
    /\ \E px \in DOMAIN buffer : prev.buffer[px] = 0 /\ buffer[px] = 255
    /\ phase = "running"

---------------------------------------------------------------------------
(* The key programs run as the interpreter runs them: nothing sets a key *)

KeysUpRoms == KeyRoms \cup KeySkipRoms

LoadKeysUpRom == LoadRom(KeysUpRoms)

NextKeysUp == LoadKeysUpRom \/ Tick

SpecKeysUp == Init /\ [][NextKeysUp]_vars

\* C34: from construction on, through load_rom and every step, all 16 keys are
\* up and pressed_key answers none; with Vx < 16, Ex9E goes on at the next
\* instruction and ExA1 skips it; a step that fetched Fx0A leaves the program
\* counter and the registers as they were, so that the next step fetches the
\* same Fx0A and leaves the program counter there again.
C34_KeysStayUp ==
    /\ keys = 0
    /\ \A k \in 0..15 : ~is_key_pressed(keys, k).val
    /\ pressed_key(keys) = 16
    /\ (FetchedE(158) /\ prev.registers[LastX] < 16) =>
          /\ phase = "running"
          /\ program_counter = prev.program_counter + 2
    /\ (FetchedE(161) /\ prev.registers[LastX] < 16) =>
          /\ phase = "running"
          /\ program_counter = prev.program_counter + 4
    /\ FetchedKeyWait =>
          /\ phase = "running"
          /\ program_counter = prev.program_counter
          /\ registers = prev.registers
          /\ memory = prev.memory
          /\ prev.keys = 0
          /\ next_opcode(Cur).opcode = last_op.opcode
          /\ tick(Cur, 0).program_counter = program_counter
          /\ ~tick(Cur, 0).panic

\* The key wait at 0x206 fetched once more after the delay timer, set to 5, had
\* run down to 0: the program counter is still 0x206.
C34_Witness ==
    /\ FetchedKeyWait
    /\ memory[513] = 5
    /\ prev.program_counter = 518 /\ program_counter = 518
    /\ prev.delay_timer = 0 /\ delay_timer = 0
    /\ keys = 0
    /\ phase = "running"

=============================================================================
